---- MODULE Spec2Model ----
(***************************************************************************)
(* tauri-vm: the React front end of a remote VMware console and its        *)
(* end-to-end invoke suite.                                                *)
(*                                                                         *)
(* The module models the two consumers of the Tauri backend that live in   *)
(* the TypeScript sources:                                                 *)
(*   - App.tsx / ConsolePage: the console, driven by user clicks, whose    *)
(*     async handlers (refresh, startVm, stopVm, clearTraces, ...) overlap *)
(*     freely;                                                             *)
(*   - the e2e invoke suite (runE2EInvokeSuite), a scripted run with       *)
(*     withTimeout / withRetry around the backend calls.                   *)
(* The Rust backend (src-tauri/src/lib.rs) is not part of the sources: a   *)
(* backend call is an invocation that completes later with success or an   *)
(* error chosen by the environment; its trace ledger and key store follow  *)
(* the written specification.                                              *)
(***************************************************************************)
EXTENDS Integers, Sequences, FiniteSets, TLC

VARIABLES
    \* ---- environment (import.meta.env)
    env,             \* record of the VITE_E2E_* settings
    \* ---- backend and remote host
    calls,           \* every backend invocation issued so far, in issue order
    traceStore,      \* the backend's trace ledger, most recent first
    traceSeq,        \* last sequence id handed out by the ledger
    remoteRunning,   \* vmx paths the remote host currently runs
    keyStored,       \* whether the backend holds a private key
    \* ---- App.tsx state
    knownVms, runningVmxPaths, isRefreshing, globalError,
    actionVmId, actionText, opLog, toasts, traces, isTracesLoading,
    sshKeyPresent,   \* "unknown" (null), "present" or "absent"
    stopConfirmVm,   \* ConsolePage's local modal state
    vmPassword,      \* the VM password typed on the settings page
    isKeyWorking,    \* an upload or clear of the private key is under way
    scanMode, isScanning, scanResults, scanError,
    tasks,           \* the async handler instances that await a backend call
    nextId,          \* newId(): ids handed out so far
    userActions,     \* number of user actions so far
    \* ---- e2e suite state
    hpc,             \* where the suite's main flow stands
    body,            \* the async body of the current step
    abandoned,       \* the current step's withTimeout has fired
    events,          \* E2EEvent[]
    suite            \* bookkeeping of the run (result, report, exit code)

vars == <<env, calls, traceStore, traceSeq, remoteRunning, keyStored,
          knownVms, runningVmxPaths, isRefreshing, globalError, actionVmId,
          actionText, opLog, toasts, traces, isTracesLoading, sshKeyPresent,
          stopConfirmVm, vmPassword, isKeyWorking, scanMode, isScanning, scanResults,
          scanError, tasks, nextId, userActions, hpc, body, abandoned, events, suite>>

backendVars == <<calls, traceStore, traceSeq, remoteRunning, keyStored>>
appVars == <<knownVms, runningVmxPaths, isRefreshing, globalError, actionVmId,
             actionText, opLog, toasts, traces, isTracesLoading, sshKeyPresent,
             stopConfirmVm, tasks>>
e2eVars == <<hpc, body, abandoned, events, suite>>
scanVars == <<scanMode, isScanning, scanResults, scanError>>
keyVars == <<vmPassword, isKeyWorking>>

----------------------------------------------------------------------------
(* Bounds of the model *)

\* user actions (clicks) followed on the console page
MaxUserActions == 2
\* user actions followed on the trace list of the settings page
MaxTraceActions == 2
\* user actions followed on the key section of the settings page
MaxKeyActions == 2

----------------------------------------------------------------------------
(* Strings: a vmx path is a sequence of characters *)

LowerChar(c) ==
    CASE c = "A" -> "a"
      [] c = "B" -> "b"
      [] c = "C" -> "c"
      [] OTHER -> c

\* String.prototype.toLowerCase
ToLowerCase(s) == [i \in DOMAIN s |-> LowerChar(s[i])]

VmxA == <<"C", "A">>
VmxALower == <<"c", "a">>
VmxB == <<"C", "B">>

\* the paths as the remote host spells them in its `vmrun list` output
RemotePaths == {VmxALower, VmxB}

RemoteSpelling(p) == CHOOSE q \in RemotePaths : ToLowerCase(q) = ToLowerCase(p)

LowerSet(ps) == {ToLowerCase(p) : p \in ps}

\* errors a backend call may reject with
Errors == {"E1", "E2"}

NoId == <<>>
NoPath == <<>>

\* a private-key text: what it says, and its length (String.prototype.length)
KeyText(text, length) == [text |-> text, length |-> length]
NoKey == KeyText("", 0)

Take(s, n) == IF Len(s) <= n THEN s ELSE SubSeq(s, 1, n)

----------------------------------------------------------------------------
(* Backend: invocations, trace ledger, remote host *)

\* commands that run a remote command over ssh (and so are traced)
RemoteOps == {"ssh_exec", "vmware_list_running", "vmware_start_vm", "vmware_stop_vm",
              "vmware_scan_default_vmx", "vmware_scan_vmx", "vmware_status_for_known"}

\* capacity of the trace ledger
TraceCapacity == 4

SettledCount(cs) == Cardinality({i \in DOMAIN cs : cs[i].status # "pending"})

\* invoke(op, args): the call is issued and pending.  attempt, waited and prev
\* are filled in by withRetry for the calls it makes, supplied by the caller of a
\* wrapper (the request id it handed over); keyText and vmPassword are the
\* secret arguments of the command, present the answer of ssh_key_status
Invoke(cs, op, rid, path, mode) ==
    Append(cs, [op |-> op, requestId |-> rid, path |-> path, mode |-> mode,
                status |-> "pending", err |-> "", startedAt |-> Len(cs),
                issuedAfter |-> SettledCount(cs), settledAt |-> 0,
                value |-> {}, traced |-> 0, attempt |-> 0, waited |-> 0, prev |-> "",
                supplied |-> NoId, keyText |-> NoKey, vmPassword |-> "",
                present |-> FALSE])

\* the caller's note of the request id it handed to the wrapper
Supplied(cs, requestId) == [cs EXCEPT ![Len(cs)].supplied = requestId]

\* a ledger that records successful executions only
TraceWritesOnSuccess(c, ok) == IF c.op \in RemoteOps /\ ok THEN 1 ELSE 0

\* the number of ledger entries written for one completed call
TraceWrites(c, ok) == IF c.op \in RemoteOps THEN 1 ELSE 0

\* the call's promise settles
Settle(cs, cid, ok, err) ==
    [cs EXCEPT ![cid].status = IF ok THEN "ok" ELSE "err",
               ![cid].err = IF ok THEN "" ELSE err,
               ![cid].settledAt = SettledCount(cs) + 1,
               ![cid].value = IF ok /\ cs[cid].op = "vmware_list_running"
                              THEN remoteRunning ELSE {},
               ![cid].present = ok /\ cs[cid].op = "ssh_key_status" /\ keyStored,
               ![cid].traced = @ + TraceWrites(cs[cid], ok)]

TraceDuration(startedAt, endedAt) == endedAt - startedAt

\* TraceStore.record: one entry per remote execution, newest first, oldest evicted
TraceRecord(store, seqId, c, cid, ok, endedAt) ==
    Take(<<[id |-> seqId, call |-> cid, action |-> c.op, ok |-> ok,
            requestId |-> c.requestId,
            durationMs |-> TraceDuration(c.startedAt, endedAt)]>> \o store,
         TraceCapacity)

\* the ledger after call cid completes
TraceAfter(store, seqId, cs, cid, ok, endedAt) ==
    IF TraceWrites(cs[cid], ok) > 0
    THEN TraceRecord(store, seqId, cs[cid], cid, ok, endedAt)
    ELSE IF cs[cid].op = "trace_clear" /\ ok THEN <<>> ELSE store

\* what the remote host may run after the command of call c has finished:
\* a successful start/stop may or may not have taken effect
RemoteAfter(rr, c, ok) ==
    IF ~ok THEN {rr}
    ELSE IF c.op = "vmware_start_vm"
    THEN {rr, rr \cup {RemoteSpelling(c.path)}}
    ELSE IF c.op = "vmware_stop_vm"
    THEN {rr, {p \in rr : ToLowerCase(p) # ToLowerCase(c.path)}}
    ELSE {rr}

\* the byte ceiling of a private-key text
KeyCeiling == 262144

\* the credential manager's validation of a key text
ValidKey(keyText) == keyText.length > 0 /\ keyText.length <= KeyCeiling

\* a key store that gives up the stored key as soon as a new one is offered
KeyAfterOffer(stored, c, ok) ==
    IF c.op = "ssh_set_private_key" THEN ok
    ELSE IF c.op = "ssh_clear_private_key" /\ ok THEN FALSE
    ELSE stored

\* the credential state after call c has completed: set makes the key present,
\* clear makes it absent, anything that fails leaves it as it was
KeyAfter(stored, c, ok) ==
    IF ~ok THEN stored
    ELSE IF c.op = "ssh_set_private_key" THEN TRUE
    ELSE IF c.op = "ssh_clear_private_key" THEN FALSE
    ELSE stored

\* the backend side of the completion of call cid (everything but `calls`)
BackendSettle(cid, ok, rr) ==
    /\ calls[cid].status = "pending"
    /\ rr \in RemoteAfter(remoteRunning, calls[cid], ok)
    /\ remoteRunning' = rr
    /\ traceSeq' = traceSeq + TraceWrites(calls[cid], ok)
    /\ traceStore' = TraceAfter(traceStore, traceSeq + 1, calls, cid, ok, Len(calls))
    /\ keyStored' = KeyAfter(keyStored, calls[cid], ok)

----------------------------------------------------------------------------
(* src/app/tauri.ts: the invoke wrappers *)

\* a wrapper that invokes the wrong command
sshExecAsList(cs, requestId) == Invoke(cs, "vmware_list_running", requestId, NoPath, "")

sshExec(cs, requestId) == Invoke(cs, "ssh_exec", requestId, NoPath, "")

\* a wrapper that invokes the command a second time
vmwareListRunningTwice(cs, requestId) ==
    Invoke(Invoke(cs, "vmware_list_running", requestId, NoPath, ""),
           "vmware_list_running", requestId, NoPath, "")

\* the wrapper as it was before request ids were passed on
vmwareListRunningNoId(cs, requestId) ==
    Invoke(cs, "vmware_list_running", NoId, NoPath, "")

vmwareListRunning(cs, requestId) ==
    Invoke(cs, "vmware_list_running", requestId, NoPath, "")

\* the secret arguments of the call just issued
WithSecrets(cs, keyText, password) ==
    [cs EXCEPT ![Len(cs)].keyText = keyText, ![Len(cs)].vmPassword = password]

vmwareStartVmWithPassword(cs, vmxPath, password, requestId) ==
    WithSecrets(Invoke(cs, "vmware_start_vm", requestId, vmxPath, ""), NoKey, password)

vmwareStopVm(cs, vmxPath, mode, requestId, password) ==
    WithSecrets(Invoke(cs, "vmware_stop_vm", requestId, vmxPath, mode), NoKey, password)

vmwareScanDefaultVmx(cs, requestId) ==
    Invoke(cs, "vmware_scan_default_vmx", requestId, NoPath, "")

vmwareScanVmx(cs, requestId) ==
    Invoke(cs, "vmware_scan_vmx", requestId, NoPath, "")

sshKeyStatus(cs) == Invoke(cs, "ssh_key_status", NoId, NoPath, "")

sshSetPrivateKey(cs, keyText) ==
    WithSecrets(Invoke(cs, "ssh_set_private_key", NoId, NoPath, ""), keyText, "")

sshClearPrivateKey(cs) == Invoke(cs, "ssh_clear_private_key", NoId, NoPath, "")

traceList(cs) == Invoke(cs, "trace_list", NoId, NoPath, "")

traceClear(cs) == Invoke(cs, "trace_clear", NoId, NoPath, "")

----------------------------------------------------------------------------
(* App.tsx *)

LogCapacity == 200
ToastCapacity == 3

newId(n) == <<"id", n + 1>>

pushToast(ts, kind, title) == Take(<<[kind |-> kind, title |-> title]>> \o ts, ToastCapacity)

\* what a handler hands to withLog beside the action: the summary and the meta
\* fields (-1, NoPath, "" where a handler gives none)
Meta(summary, keySize, vmxPath, mode) ==
    [summary |-> summary, keySize |-> keySize, vmxPath |-> vmxPath, mode |-> mode]
NoMeta == Meta("", -1, NoPath, "")

\* a pushLog that refuses a new record once the log is full
pushLogRefuses(log, action, status, requestId, error, meta) ==
    IF Len(log) >= LogCapacity THEN log
    ELSE <<[action |-> action, status |-> status, requestId |-> requestId,
            error |-> error, meta |-> meta]>> \o log

\* a pushLog that keeps the records of failures only
pushLogErrors(log, action, status, requestId, error, meta) ==
    IF status = "error"
    THEN Take(<<[action |-> action, status |-> status, requestId |-> requestId,
                 error |-> error, meta |-> meta]>> \o log, LogCapacity)
    ELSE log

pushLog(log, action, status, requestId, error, meta) ==
    Take(<<[action |-> action, status |-> status, requestId |-> requestId,
            error |-> error, meta |-> meta]>> \o log, LogCapacity)

\* a persistence that writes the VM password with the rest
localStorageWithPassword ==
    [knownVms |-> knownVms, opLog |-> opLog, vmPassword |-> vmPassword]

\* the persistence effects: what local storage holds after a render, by key (the
\* ssh settings, scan roots and diagnostic command, also written, are not
\* followed)
localStorage == [knownVms |-> knownVms, opLog |-> opLog]

\* ConsolePage: the derived flags of a vm card
IsRunningVm(vm) == ToLowerCase(vm.vmxPath) \in LowerSet(runningVmxPaths)
IsBusy(vm) == actionVmId = vm.id \/ isRefreshing

Task(fn, phase, cid, vm, mode, requestId) ==
    [fn |-> fn, phase |-> phase, cid |-> cid, vmId |-> vm.id, vmxPath |-> vm.vmxPath,
     mode |-> mode, requestId |-> requestId]

NoVm == [id |-> "", vmxPath |-> NoPath, pinned |-> FALSE]

InScope(pages) == ~env.e2e /\ env.scope \in pages

CanAct == userActions < env.budget

\* outcomes of a backend call: resolved, or rejected with an error
Outcomes(op) ==
    {[ok |-> TRUE, err |-> ""]} \cup
    {[ok |-> FALSE, err |-> e] :
        e \in IF env.e2e /\ op \in {"vmware_start_vm", "vmware_stop_vm"}
              THEN Errors ELSE {"E1"}}

\* outcomes of the backend call c: a set of an empty or oversized key text is
\* refused by the credential manager
CallOutcomes(c) ==
    IF c.op = "ssh_set_private_key" /\ ~ValidKey(c.keyText)
    THEN {[ok |-> FALSE, err |-> "ValidationError"]}
    ELSE Outcomes(c.op)

\* the instance t goes on with a new awaited call, or ends
Replace(t, new) == (tasks \ {t}) \cup new

\* useEffect(..., []): pushLog(app_init); void refreshKeyStatus(); void refresh().
\* The console is followed from the moment the key status query of the mount
\* effect has settled; the mount's refresh is still in flight.
AppInit ==
    /\ calls = Supplied(vmwareListRunning(Settle(sshKeyStatus(<<>>), 1, TRUE, ""),
                                           newId(1)),
                         newId(1))
    /\ knownVms = <<[id |-> "vm1", vmxPath |-> VmxA, pinned |-> FALSE],
                    [id |-> "vm2", vmxPath |-> VmxB, pinned |-> FALSE]>>
    /\ runningVmxPaths = {}
    /\ isRefreshing = TRUE
    /\ globalError = ""
    /\ actionVmId = ""
    /\ actionText = ""
    /\ opLog = pushLog(pushLog(<<>>, "app_init", "success", NoId, "", NoMeta),
                       "refresh_key_status", "success", newId(0), "", NoMeta)
    /\ toasts = <<>>
    /\ traces = <<>>
    /\ isTracesLoading = FALSE
    /\ sshKeyPresent = IF keyStored THEN "present" ELSE "absent"
    /\ stopConfirmVm = NoVm
    /\ vmPassword = ""
    /\ isKeyWorking = FALSE
    /\ scanMode = "custom"
    /\ isScanning = FALSE
    /\ scanResults = <<>>
    /\ scanError = ""
    /\ tasks = {Task("refresh", "list", 2, NoVm, "", newId(1))}
    /\ nextId = 2
    /\ userActions = 0

\* a handler without its finally block
KeptMarker(marker) == marker

\* startVm / stopVm, finally block: setActionVmId(null); setActionText("")
ClearedMarker(marker) == ""

\* the refresh button of the console: refresh() up to its await
AppRefreshClick ==
    /\ InScope({"console", "traces", "scan"}) /\ CanAct /\ ~isRefreshing
    /\ userActions' = userActions + 1
    /\ isRefreshing' = TRUE
    /\ globalError' = ""
    /\ calls' = Supplied(vmwareListRunning(calls, newId(nextId)), newId(nextId))
    /\ nextId' = nextId + 1
    /\ tasks' = tasks \cup {Task("refresh", "list", Len(calls) + 1, NoVm, "", newId(nextId))}
    /\ UNCHANGED <<env, traceStore, traceSeq, remoteRunning, keyStored, knownVms,
                   runningVmxPaths, actionVmId, actionText, opLog, toasts, traces,
                   isTracesLoading, sshKeyPresent, stopConfirmVm>>
    /\ UNCHANGED e2eVars
    /\ UNCHANGED keyVars
    /\ UNCHANGED scanVars

\* refresh() after its await; when startVm/stopVm awaited it, their finally block runs
refresh(t, out) ==
    /\ t.phase = "list" /\ t.fn \in {"refresh", "startVm", "stopVm"}
    /\ BackendSettle(t.cid, out.ok, remoteRunning)
    /\ calls' = Settle(calls, t.cid, out.ok, out.err)
    /\ runningVmxPaths' = IF out.ok THEN remoteRunning ELSE runningVmxPaths
    /\ globalError' = IF out.ok THEN globalError ELSE out.err
    /\ opLog' = pushLog(opLog, "refresh_running",
                        IF out.ok THEN "success" ELSE "error", t.requestId, out.err,
                        NoMeta)
    /\ isRefreshing' = FALSE
    /\ actionVmId' = IF t.fn = "refresh" THEN actionVmId ELSE ClearedMarker(actionVmId)
    /\ actionText' = IF t.fn = "refresh" THEN actionText ELSE ClearedMarker(actionText)
    /\ tasks' = Replace(t, {})
    /\ UNCHANGED <<env, knownVms, toasts, traces, isTracesLoading, sshKeyPresent,
                   stopConfirmVm, nextId, userActions>>
    /\ UNCHANGED e2eVars
    /\ UNCHANGED keyVars
    /\ UNCHANGED scanVars

\* startVm(vm) / stopVm(vm, mode) up to the await of the backend call
VmActionBegin(fn, vm, mode, text, cs) ==
    /\ InScope({"console"}) /\ CanAct
    /\ userActions' = userActions + 1
    /\ actionVmId' = vm.id
    /\ actionText' = text
    /\ globalError' = ""
    /\ calls' = cs
    /\ nextId' = nextId + 1
    /\ tasks' = tasks \cup {Task(fn, "call", Len(calls) + 1, vm, mode, newId(nextId))}
    /\ UNCHANGED <<env, traceStore, traceSeq, remoteRunning, keyStored, knownVms,
                   runningVmxPaths, isRefreshing, opLog, toasts, traces, isTracesLoading,
                   sshKeyPresent>>
    /\ UNCHANGED e2eVars
    /\ UNCHANGED keyVars
    /\ UNCHANGED scanVars

\* startVm / stopVm: the meta handed to withLog (summaries of the ssh settings, of
\* the vmx path and of the stop mode)
VmMeta(t) == Meta("", -1, t.vmxPath, t.mode)

\* startVm/stopVm after the await: withLog's record, the toast, then either
\* `await refresh()` or the catch and finally blocks
VmActionSettled(t, out, action, okTitle, errTitle) ==
    /\ t.phase = "call"
    /\ \E rr \in RemoteAfter(remoteRunning, calls[t.cid], out.ok) :
           BackendSettle(t.cid, out.ok, rr)
    /\ opLog' = pushLog(opLog, action, IF out.ok THEN "success" ELSE "error",
                        t.requestId, out.err, VmMeta(t))
    /\ toasts' = pushToast(toasts, IF out.ok THEN "success" ELSE "error",
                           IF out.ok THEN okTitle ELSE errTitle)
    /\ IF out.ok
       THEN /\ calls' = Supplied(vmwareListRunning(Settle(calls, t.cid, TRUE, ""),
                                                  newId(nextId)),
                                newId(nextId))
            /\ nextId' = nextId + 1
            /\ isRefreshing' = TRUE
            /\ globalError' = ""
            /\ tasks' = Replace(t, {[t EXCEPT !.phase = "list", !.cid = Len(calls) + 1,
                                              !.requestId = newId(nextId)]})
            /\ UNCHANGED <<actionVmId, actionText>>
       ELSE /\ calls' = Settle(calls, t.cid, FALSE, out.err)
            /\ globalError' = out.err
            /\ actionVmId' = ClearedMarker(actionVmId)
            /\ actionText' = ClearedMarker(actionText)
            /\ tasks' = Replace(t, {})
            /\ UNCHANGED <<nextId, isRefreshing>>
    /\ UNCHANGED <<env, knownVms, runningVmxPaths, traces, isTracesLoading, sshKeyPresent,
                   stopConfirmVm, userActions>>
    /\ UNCHANGED e2eVars
    /\ UNCHANGED keyVars
    /\ UNCHANGED scanVars

\* the passwords the user may type
Passwords == {"", "pw1"}

\* the VM password field of the settings page: setVmPassword
AppChangeVmPassword(password) ==
    /\ InScope({"console"}) /\ CanAct
    /\ vmPassword # password
    /\ vmPassword' = password
    /\ userActions' = userActions + 1
    /\ UNCHANGED <<env, knownVms, runningVmxPaths, isRefreshing, globalError, actionVmId,
                   actionText, opLog, toasts, traces, isTracesLoading, sshKeyPresent,
                   stopConfirmVm, isKeyWorking, tasks, nextId>>
    /\ UNCHANGED backendVars
    /\ UNCHANGED e2eVars
    /\ UNCHANGED scanVars

\* ConsolePage: the start button of a card that is not running and not busy
AppStartClick(vm) ==
    /\ ~IsRunningVm(vm) /\ ~IsBusy(vm)
    /\ VmActionBegin("startVm", vm, "", "starting",
                     vmwareStartVmWithPassword(calls, vm.vmxPath, vmPassword, newId(nextId)))
    /\ UNCHANGED stopConfirmVm

startVm(t, out) ==
    /\ t.fn = "startVm"
    /\ VmActionSettled(t, out, "start_vm", "started", "start failed")

\* ConsolePage: the stop button opens the confirmation modal
AppStopOpen(vm) ==
    /\ InScope({"console"})
    /\ IsRunningVm(vm) /\ ~IsBusy(vm)
    /\ stopConfirmVm = NoVm
    /\ stopConfirmVm' = vm
    /\ UNCHANGED <<env, knownVms, runningVmxPaths, isRefreshing, globalError, actionVmId,
                   actionText, opLog, toasts, traces, isTracesLoading, sshKeyPresent,
                   tasks, nextId, userActions>>
    /\ UNCHANGED backendVars
    /\ UNCHANGED e2eVars
    /\ UNCHANGED keyVars
    /\ UNCHANGED scanVars

AppStopCancel ==
    /\ InScope({"console"})
    /\ stopConfirmVm # NoVm
    /\ stopConfirmVm' = NoVm
    /\ UNCHANGED <<env, knownVms, runningVmxPaths, isRefreshing, globalError, actionVmId,
                   actionText, opLog, toasts, traces, isTracesLoading, sshKeyPresent,
                   tasks, nextId, userActions>>
    /\ UNCHANGED backendVars
    /\ UNCHANGED e2eVars
    /\ UNCHANGED keyVars
    /\ UNCHANGED scanVars

\* the modal's soft / hard buttons: setStopConfirmVm(null); onStopVm(vm, mode)
AppStopConfirm(mode) ==
    /\ stopConfirmVm # NoVm
    /\ stopConfirmVm' = NoVm
    /\ VmActionBegin("stopVm", stopConfirmVm, mode,
                     IF mode = "hard" THEN "hard stopping" ELSE "soft stopping",
                     vmwareStopVm(calls, stopConfirmVm.vmxPath, mode, newId(nextId),
                                  vmPassword))

stopVm(t, out) ==
    /\ t.fn = "stopVm"
    /\ VmActionSettled(t, out, "stop_vm", "stopped", "stop failed")

\* the settings page's refresh button of the trace list: refreshTraces() up to its await
AppRefreshTracesClick ==
    /\ InScope({"traces"}) /\ CanAct /\ ~isTracesLoading
    /\ userActions' = userActions + 1
    /\ isTracesLoading' = TRUE
    /\ calls' = traceList(calls)
    /\ tasks' = tasks \cup {Task("refreshTraces", "list", Len(calls) + 1, NoVm, "", NoId)}
    /\ UNCHANGED <<env, traceStore, traceSeq, remoteRunning, keyStored, knownVms,
                   runningVmxPaths, isRefreshing, globalError, actionVmId, actionText,
                   opLog, toasts, traces, sshKeyPresent, stopConfirmVm, nextId>>
    /\ UNCHANGED e2eVars
    /\ UNCHANGED keyVars
    /\ UNCHANGED scanVars

\* refreshTraces() after its await (also as the tail of clearTraces)
refreshTraces(t, out) ==
    /\ t.fn \in {"refreshTraces", "clearTraces"} /\ t.phase = "list"
    /\ BackendSettle(t.cid, out.ok, remoteRunning)
    /\ calls' = Settle(calls, t.cid, out.ok, out.err)
    /\ traces' = IF out.ok THEN traceStore ELSE traces
    /\ isTracesLoading' = FALSE
    /\ tasks' = Replace(t, {})
    /\ UNCHANGED <<env, knownVms, runningVmxPaths, isRefreshing, globalError, actionVmId,
                   actionText, opLog, toasts, sshKeyPresent, stopConfirmVm, nextId,
                   userActions>>
    /\ UNCHANGED e2eVars
    /\ UNCHANGED keyVars
    /\ UNCHANGED scanVars

\* the settings page's clear button: onClearOpLog(); onClearTraces()
AppClearClick ==
    /\ InScope({"traces"}) /\ CanAct
    /\ opLog # <<>> \/ traces # <<>>
    /\ userActions' = userActions + 1
    /\ opLog' = <<>>
    /\ calls' = traceClear(calls)
    /\ tasks' = tasks \cup {Task("clearTraces", "clear", Len(calls) + 1, NoVm, "", NoId)}
    /\ UNCHANGED <<env, traceStore, traceSeq, remoteRunning, keyStored, knownVms,
                   runningVmxPaths, isRefreshing, globalError, actionVmId, actionText,
                   toasts, traces, isTracesLoading, sshKeyPresent, stopConfirmVm, nextId>>
    /\ UNCHANGED e2eVars
    /\ UNCHANGED keyVars
    /\ UNCHANGED scanVars

\* clearTraces() after `await tauri.traceClear()`: `await refreshTraces()`
clearTraces(t, out) ==
    /\ t.fn = "clearTraces" /\ t.phase = "clear"
    /\ BackendSettle(t.cid, out.ok, remoteRunning)
    /\ IF out.ok
       THEN /\ calls' = traceList(Settle(calls, t.cid, TRUE, ""))
            /\ isTracesLoading' = TRUE
            /\ tasks' = Replace(t, {[t EXCEPT !.phase = "list", !.cid = Len(calls) + 1]})
       ELSE /\ calls' = Settle(calls, t.cid, FALSE, out.err)
            /\ tasks' = Replace(t, {})
            /\ UNCHANGED isTracesLoading
    /\ UNCHANGED <<env, knownVms, runningVmxPaths, isRefreshing, globalError, actionVmId,
                   actionText, opLog, toasts, traces, sshKeyPresent, stopConfirmVm, nextId,
                   userActions>>
    /\ UNCHANGED e2eVars
    /\ UNCHANGED keyVars
    /\ UNCHANGED scanVars

\* the scan wizard's mode buttons
AppSetScanMode(m) ==
    /\ InScope({"scan"})
    /\ scanMode # m
    /\ scanMode' = m
    /\ UNCHANGED <<env, knownVms, runningVmxPaths, isRefreshing, globalError, actionVmId,
                   actionText, opLog, toasts, traces, isTracesLoading, sshKeyPresent,
                   stopConfirmVm, isScanning, scanResults, scanError, tasks, nextId,
                   userActions>>
    /\ UNCHANGED backendVars
    /\ UNCHANGED e2eVars
    /\ UNCHANGED keyVars

\* the scan wizard's scan button: runScan() up to its await
AppRunScanClick ==
    /\ InScope({"scan", "vms"}) /\ CanAct /\ ~isScanning /\ sshKeyPresent # "absent"
    /\ userActions' = userActions + 1
    /\ isScanning' = TRUE
    /\ scanError' = ""
    /\ scanResults' = <<>>
    /\ calls' = IF scanMode = "default" THEN vmwareScanDefaultVmx(calls, newId(nextId))
                ELSE vmwareScanVmx(calls, newId(nextId))
    /\ nextId' = nextId + 1
    /\ tasks' = tasks \cup {Task("runScan", "call", Len(calls) + 1, NoVm, scanMode,
                                 newId(nextId))}
    /\ UNCHANGED <<env, traceStore, traceSeq, remoteRunning, keyStored, knownVms,
                   runningVmxPaths, isRefreshing, globalError, actionVmId, actionText,
                   opLog, toasts, traces, isTracesLoading, sshKeyPresent, stopConfirmVm,
                   scanMode>>
    /\ UNCHANGED e2eVars
    /\ UNCHANGED keyVars

\* what a scan of the remote directories may find
ScanOutputs == {<<>>, <<VmxA, VmxB>>, <<VmxA, VmxALower>>}

\* runScan() after its await
runScan(t, out) ==
    /\ t.fn = "runScan"
    /\ BackendSettle(t.cid, out.ok, remoteRunning)
    /\ calls' = Settle(calls, t.cid, out.ok, out.err)
    /\ opLog' = pushLog(opLog, IF t.mode = "default" THEN "scan_vmx_default"
                               ELSE "scan_vmx_custom",
                        IF out.ok THEN "success" ELSE "error", t.requestId, out.err,
                        NoMeta)
    /\ toasts' = pushToast(toasts, IF out.ok THEN "success" ELSE "error",
                           IF out.ok THEN "scan done" ELSE "scan failed")
    /\ IF out.ok THEN /\ scanResults' \in ScanOutputs
                      /\ UNCHANGED scanError
       ELSE /\ scanError' = out.err
            /\ UNCHANGED scanResults
    /\ isScanning' = FALSE
    /\ tasks' = Replace(t, {})
    /\ UNCHANGED <<env, knownVms, runningVmxPaths, isRefreshing, globalError, actionVmId,
                   actionText, traces, isTracesLoading, sshKeyPresent, stopConfirmVm,
                   scanMode, nextId, userActions>>
    /\ UNCHANGED e2eVars
    /\ UNCHANGED keyVars

\* the key files the user may choose: empty, two ordinary keys of the same
\* length, and one above the ceiling
UploadKeys ==
    {KeyText("", 0), KeyText("kA", 1704), KeyText("kC", 1704),
     KeyText("kBig", KeyCeiling + 1)}

\* the two calls of the mount effect, made after newId() has handed out n ids
MountCallsFrom(n) ==
    Supplied(vmwareListRunning(Supplied(sshKeyStatus(<<>>), newId(n)), newId(n + 1)),
             newId(n + 1))

MountCalls == MountCallsFrom(0)

\* the mount effect seen from the settings page: its refresh has come back (no
\* VM runs), the key status query is still in flight
AppInitKey ==
    /\ calls = Settle(MountCalls, 2, TRUE, "")
    /\ knownVms = <<[id |-> "vm1", vmxPath |-> VmxA, pinned |-> FALSE],
                    [id |-> "vm2", vmxPath |-> VmxB, pinned |-> FALSE]>>
    /\ runningVmxPaths = {}
    /\ isRefreshing = FALSE
    /\ globalError = ""
    /\ actionVmId = ""
    /\ actionText = ""
    /\ opLog = pushLog(pushLog(<<>>, "app_init", "success", NoId, "", NoMeta),
                       "refresh_running", "success", newId(1), "", NoMeta)
    /\ toasts = <<>>
    /\ traces = <<>>
    /\ isTracesLoading = FALSE
    /\ sshKeyPresent = "unknown"
    /\ stopConfirmVm = NoVm
    /\ vmPassword = ""
    /\ isKeyWorking = FALSE
    /\ scanMode = "custom"
    /\ isScanning = FALSE
    /\ scanResults = <<>>
    /\ scanError = ""
    /\ tasks = {Task("refreshKeyStatus", "status", 1, NoVm, "", newId(0))}
    /\ nextId = 2
    /\ userActions = 0

\* refreshKeyStatus() after its await
refreshKeyStatus(t, out) ==
    /\ t.fn = "refreshKeyStatus"
    /\ BackendSettle(t.cid, out.ok, remoteRunning)
    /\ calls' = Settle(calls, t.cid, out.ok, out.err)
    /\ opLog' = pushLog(opLog, "refresh_key_status",
                        IF out.ok THEN "success" ELSE "error", t.requestId, out.err,
                        NoMeta)
    /\ sshKeyPresent' = IF out.ok /\ keyStored THEN "present" ELSE "absent"
    /\ tasks' = Replace(t, {})
    /\ UNCHANGED <<env, knownVms, runningVmxPaths, isRefreshing, globalError, actionVmId,
                   actionText, toasts, traces, isTracesLoading, stopConfirmVm, nextId,
                   userActions>>
    /\ UNCHANGED e2eVars
    /\ UNCHANGED scanVars
    /\ UNCHANGED keyVars

\* an upload that notes the key text itself in the log
UploadMetaWithText(keyText) == Meta(keyText.text, keyText.length, NoPath, "")

\* uploadSshKeyText: the summary and meta handed to withLog
UploadMeta(keyText) == Meta("Upload SSH private key", keyText.length, NoPath, "")

\* SettingsPage.readKeyFile and uploadSshKeyText(keyText) up to the await
AppUploadKey(keyText) ==
    /\ InScope({"key"}) /\ CanAct /\ ~isKeyWorking
    /\ userActions' = userActions + 1
    /\ isKeyWorking' = TRUE
    /\ calls' = Supplied(sshSetPrivateKey(calls, keyText), newId(nextId))
    /\ nextId' = nextId + 1
    /\ tasks' = tasks \cup {Task("uploadSshKeyText", "call", Len(calls) + 1, NoVm, "",
                                 newId(nextId))}
    /\ UNCHANGED <<env, traceStore, traceSeq, remoteRunning, keyStored, knownVms,
                   runningVmxPaths, isRefreshing, globalError, actionVmId, actionText,
                   opLog, toasts, traces, isTracesLoading, sshKeyPresent, stopConfirmVm,
                   vmPassword>>
    /\ UNCHANGED e2eVars
    /\ UNCHANGED scanVars

\* uploadSshKeyText after the await
uploadSshKeyText(t, out) ==
    /\ t.fn = "uploadSshKeyText"
    /\ BackendSettle(t.cid, out.ok, remoteRunning)
    /\ calls' = Settle(calls, t.cid, out.ok, out.err)
    /\ opLog' = pushLog(opLog, "upload_key", IF out.ok THEN "success" ELSE "error",
                        t.requestId, out.err, UploadMeta(calls[t.cid].keyText))
    /\ sshKeyPresent' = IF out.ok THEN "present" ELSE "absent"
    /\ toasts' = pushToast(toasts, IF out.ok THEN "success" ELSE "error",
                           IF out.ok THEN "key saved" ELSE "key not saved")
    /\ isKeyWorking' = FALSE
    /\ tasks' = Replace(t, {})
    /\ UNCHANGED <<env, knownVms, runningVmxPaths, isRefreshing, globalError, actionVmId,
                   actionText, traces, isTracesLoading, stopConfirmVm, vmPassword, nextId,
                   userActions>>
    /\ UNCHANGED e2eVars
    /\ UNCHANGED scanVars

\* the clear button of the settings page: clearSshKey() up to the await
AppClearKey ==
    /\ InScope({"key"}) /\ CanAct /\ ~isKeyWorking
    /\ userActions' = userActions + 1
    /\ isKeyWorking' = TRUE
    /\ calls' = Supplied(sshClearPrivateKey(calls), newId(nextId))
    /\ nextId' = nextId + 1
    /\ tasks' = tasks \cup {Task("clearSshKey", "call", Len(calls) + 1, NoVm, "",
                                 newId(nextId))}
    /\ UNCHANGED <<env, traceStore, traceSeq, remoteRunning, keyStored, knownVms,
                   runningVmxPaths, isRefreshing, globalError, actionVmId, actionText,
                   opLog, toasts, traces, isTracesLoading, sshKeyPresent, stopConfirmVm,
                   vmPassword>>
    /\ UNCHANGED e2eVars
    /\ UNCHANGED scanVars

\* clearSshKey after the await
clearSshKey(t, out) ==
    /\ t.fn = "clearSshKey"
    /\ BackendSettle(t.cid, out.ok, remoteRunning)
    /\ calls' = Settle(calls, t.cid, out.ok, out.err)
    /\ opLog' = pushLog(opLog, "clear_key", IF out.ok THEN "success" ELSE "error",
                        t.requestId, out.err, NoMeta)
    /\ sshKeyPresent' = IF out.ok THEN "absent" ELSE sshKeyPresent
    /\ toasts' = pushToast(toasts, IF out.ok THEN "success" ELSE "error",
                           IF out.ok THEN "key cleared" ELSE "clear failed")
    /\ isKeyWorking' = FALSE
    /\ tasks' = Replace(t, {})
    /\ UNCHANGED <<env, knownVms, runningVmxPaths, isRefreshing, globalError, actionVmId,
                   actionText, traces, isTracesLoading, stopConfirmVm, vmPassword, nextId,
                   userActions>>
    /\ UNCHANGED e2eVars
    /\ UNCHANGED scanVars

----------------------------------------------------------------------------
(* App.tsx: the list of known VMs *)

\* bound: user actions followed on the list of known VMs
MaxVmActions == 2

RECURSIVE TrimStart(_)
TrimStart(s) == IF s # <<>> /\ Head(s) = " " THEN TrimStart(Tail(s)) ELSE s

RECURSIVE TrimEnd(_)
TrimEnd(s) ==
    IF s # <<>> /\ s[Len(s)] = " " THEN TrimEnd(SubSeq(s, 1, Len(s) - 1)) ELSE s

\* String.prototype.trim
Trim(s) == TrimEnd(TrimStart(s))

\* newId() where the id becomes the id of a known VM: a string
IdText(id) == ToString(id)

\* guessVmNameFromVmxPath, for a path without separators and without the .vmx
\* ending: the file name is the whole path
guessVmNameFromVmxPath(vmxPath) == IF vmxPath = <<>> THEN <<"?">> ELSE vmxPath

\* a KnownVm; id "" and nameOverride <<>> stand for a missing field
KnownVm(id, vmxPath, pinned, nameOverride) ==
    [id |-> id, vmxPath |-> vmxPath, pinned |-> pinned, nameOverride |-> nameOverride]

\* a normalisation that tells paths apart by their exact spelling
SeenKeyExact(vmxPath) == vmxPath

\* normalizeKnownVms: `const key = v.vmxPath.toLowerCase()`
SeenKey(vmxPath) == ToLowerCase(vmxPath)

\* normalizeKnownVms, the map: `id: v.id || newId()`
RECURSIVE WithIds(_, _)
WithIds(vms, n) ==
    IF vms = <<>> THEN <<>>
    ELSE IF Head(vms).id = ""
    THEN <<[Head(vms) EXCEPT !.id = IdText(newId(n))]>> \o WithIds(Tail(vms), n + 1)
    ELSE <<Head(vms)>> \o WithIds(Tail(vms), n)

\* normalizeKnownVms, the second filter: the first entry of each key is kept
RECURSIVE FirstOfEach(_, _)
FirstOfEach(vms, seen) ==
    IF vms = <<>> THEN <<>>
    ELSE IF SeenKey(Head(vms).vmxPath) \in seen THEN FirstOfEach(Tail(vms), seen)
    ELSE <<Head(vms)>> \o
         FirstOfEach(Tail(vms), seen \cup {SeenKey(Head(vms).vmxPath)})

\* normalizeKnownVms(vms); n is the number of ids newId() has handed out
normalizeKnownVms(vms, n) ==
    FirstOfEach(WithIds(SelectSeq(vms, LAMBDA v : Trim(v.vmxPath) # <<>>), n), {})

\* the ids normalizeKnownVms asks newId() for
IdsMade(vms) ==
    Cardinality({i \in DOMAIN vms : Trim(vms[i].vmxPath) # <<>> /\ vms[i].id = ""})

\* what local storage may hold when the app starts: the list under the current
\* key (v2) and the one under the legacy key
StoredLists ==
    {[v2 |-> <<>>, legacy |-> <<>>],
     [v2 |-> <<KnownVm("vm1", VmxA, TRUE, <<"m">>), KnownVm("", VmxALower, FALSE, <<>>),
               KnownVm("vm3", <<" ">>, FALSE, <<>>), KnownVm("vm2", VmxB, FALSE, <<>>)>>,
      legacy |-> <<>>],
     [v2 |-> <<>>,
      legacy |-> <<[id |-> "", name |-> <<>>, vmxPath |-> VmxB],
                   [id |-> "old", name |-> <<"n">>, vmxPath |-> VmxB]>>]}

\* the legacy entries as KnownVms
Migrated(legacy, n) ==
    WithIds([i \in DOMAIN legacy |->
                KnownVm(legacy[i].id, legacy[i].vmxPath, FALSE,
                        IF Trim(legacy[i].name) # <<>> THEN Trim(legacy[i].name)
                        ELSE guessVmNameFromVmxPath(legacy[i].vmxPath))],
            n)

LegacyIds(legacy) == Cardinality({i \in DOMAIN legacy : legacy[i].id = ""})

\* useState initialiser of knownVms; n ids were handed out before
LoadKnownVms(stored, n) ==
    IF stored.v2 # <<>> THEN normalizeKnownVms(stored.v2, n)
    ELSE normalizeKnownVms(Migrated(stored.legacy, n), n + LegacyIds(stored.legacy))

IdsAfterLoad(stored, n) ==
    IF stored.v2 # <<>> THEN n + IdsMade(stored.v2) ELSE n + LegacyIds(stored.legacy)

\* a log of n records of earlier sessions, the newest first
OldLog(n) ==
    [k \in 1..n |-> [action |-> "test_connection", status |-> "success",
                     requestId |-> <<"old", n - k + 1>>, error |-> "", meta |-> NoMeta]]

\* the operation logs local storage may hold when the app starts: none, one that
\* the mount effect leaves one record short of full, and one that another
\* build has left longer than the capacity
StoredLogs == {<<>>, OldLog(LogCapacity - 4), OldLog(LogCapacity + 1)}

\* the useState initialisers and the mount effect seen from the list of known
\* VMs: both calls of the effect have come back (a key is stored, no VM runs)
AppInitVms(stored, log) ==
    /\ calls = Settle(Settle(MountCallsFrom(IdsAfterLoad(stored, 0)), 1, TRUE, ""),
                      2, TRUE, "")
    /\ knownVms = LoadKnownVms(stored, 0)
    /\ runningVmxPaths = {}
    /\ isRefreshing = FALSE
    /\ globalError = ""
    /\ actionVmId = ""
    /\ actionText = ""
    /\ opLog = pushLog(pushLog(pushLog(log, "app_init", "success", NoId, "", NoMeta),
                               "refresh_key_status", "success",
                               newId(IdsAfterLoad(stored, 0)), "", NoMeta),
                       "refresh_running", "success", newId(IdsAfterLoad(stored, 0) + 1),
                       "", NoMeta)
    /\ toasts = <<>>
    /\ traces = <<>>
    /\ isTracesLoading = FALSE
    /\ sshKeyPresent = "present"
    /\ stopConfirmVm = NoVm
    /\ vmPassword = ""
    /\ isKeyWorking = FALSE
    /\ scanMode = "custom"
    /\ isScanning = FALSE
    /\ scanResults = <<>>
    /\ scanError = ""
    /\ tasks = {}
    /\ nextId = IdsAfterLoad(stored, 0) + 2
    /\ userActions = 0

\* what the user may type into the add field
AddInputs == {<<" ">>, <<" ", "c", "a", " ">>, VmxA, VmxB}

\* the handlers of the known-VM list change knownVms, opLog and toasts only
VmListFrame ==
    /\ UNCHANGED <<env, runningVmxPaths, isRefreshing, globalError, actionVmId, actionText,
                   traces, isTracesLoading, sshKeyPresent, stopConfirmVm, tasks>>
    /\ UNCHANGED backendVars
    /\ UNCHANGED e2eVars
    /\ UNCHANGED keyVars
    /\ UNCHANGED scanVars

\* addVmByPath(vmxPath); a blank path returns at once
AppAddVmByPath(vmxPath) ==
    /\ InScope({"vms"}) /\ CanAct
    /\ Trim(vmxPath) # <<>>
    /\ userActions' = userActions + 1
    /\ opLog' = pushLog(opLog, "add_vm_manual", "success", NoId, "",
                        Meta("Add VM manually", -1, Trim(vmxPath), ""))
    /\ knownVms' = normalizeKnownVms(
                       Append(knownVms,
                              KnownVm(IdText(newId(nextId)), Trim(vmxPath), FALSE,
                                      guessVmNameFromVmxPath(Trim(vmxPath)))),
                       nextId + 1)
    /\ nextId' = nextId + 1
    /\ toasts' = pushToast(toasts, "success", "added")
    /\ VmListFrame

\* removeVm(id)
AppRemoveVm(id) ==
    /\ InScope({"vms"})
    /\ knownVms' = SelectSeq(knownVms, LAMBDA v : v.id # id)
    /\ toasts' = pushToast(toasts, "info", "removed")
    /\ UNCHANGED <<opLog, nextId, userActions>>
    /\ VmListFrame

\* pinVm(id, pinned)
AppPinVm(id, pinned) ==
    /\ InScope({"vms"})
    /\ knownVms' = [i \in DOMAIN knownVms |->
                       IF knownVms[i].id = id THEN [knownVms[i] EXCEPT !.pinned = pinned]
                       ELSE knownVms[i]]
    /\ knownVms' # knownVms
    /\ UNCHANGED <<opLog, toasts, nextId, userActions>>
    /\ VmListFrame

\* the new entries importSelected makes of the selected paths
RECURSIVE Imported(_, _)
Imported(selected, n) ==
    IF selected = <<>> THEN <<>>
    ELSE <<KnownVm(IdText(newId(n)), Head(selected), FALSE,
                   guessVmNameFromVmxPath(Head(selected)))>> \o
         Imported(Tail(selected), n + 1)

\* what importSelected hands to pushLog
ImportMeta(selected, results) ==
    Meta("Import scan results", -1, NoPath, "") @@
    [selectedCount |-> Len(selected), totalCount |-> Len(results)]

\* the import button of the scan wizard: importSelected(); ticked is the set of
\* paths whose checkbox is ticked (scanSelection)
AppImportSelected(ticked) ==
    /\ InScope({"vms"}) /\ CanAct /\ ~isScanning
    /\ LET selected == SelectSeq(scanResults, LAMBDA p : p \in ticked)
       IN  /\ selected # <<>>
           /\ opLog' = pushLog(opLog, "import_scan_results", "success", NoId, "",
                               ImportMeta(selected, scanResults))
           /\ knownVms' = normalizeKnownVms(knownVms \o Imported(selected, nextId),
                                            nextId + Len(selected))
           /\ nextId' = nextId + Len(selected)
    /\ userActions' = userActions + 1
    /\ toasts' = pushToast(toasts, "success", "imported")
    /\ VmListFrame

----------------------------------------------------------------------------
(* src/app/e2eRunner.ts: the invoke suite *)

RetryAttempts == 2
RetryDelayMs == 800

\* the key text of VITE_E2E_SSH_KEY_TEXT, when it is set
EnvKey == KeyText("kE", 1704)

\* a buildSshFromEnv that asks for the host only
buildSshFromHost(e) == e.host

\* buildSshFromEnv: whether an ssh configuration results (null otherwise)
buildSshFromEnv(e) == e.host /\ e.user

NoBody ==
    [step |-> "", stage |-> "idle", cid |-> 0, attempt |-> 0, lastError |-> "",
     requestId |-> NoId, mode |-> "", slept |-> 0]

newRequestId(prefix, n) == <<prefix, n>>

\* the steps whose body runs under withTimeout
TimedSteps ==
    {"ssh_exec_hostname", "vmware_list_running", "vmware_status_for_known",
     "vmware_stop_soft_preflight", "vmware_start_vm", "vmware_stop_soft",
     "vmware_start_vm_for_hard_stop", "vmware_stop_hard", "vmware_scan_default_vmx",
     "vmware_scan_vmx"}

StartSteps == {"vmware_start_vm", "vmware_start_vm_for_hard_stop"}
StopSteps == {"vmware_stop_soft", "vmware_stop_hard"}

\* a tryStopVm that escalates to a hard stop when it tries again
EscalatedMode(mode, attempt) == IF attempt > 1 THEN "hard" ELSE mode

\* tryStopVm: the mode handed to vmwareStopVm by the attempt
AttemptMode(mode, attempt) == mode

\* a retry that asks for a new request id at every attempt
AttemptIdFresh(requestId, attempt) == Append(requestId, attempt)

\* tryStartVm / tryStopVm: the function handed to withRetry closes over the one
\* requestId of the caller, whatever the attempt
AttemptId(requestId, attempt) == requestId

\* withRetry, loop body: the call of the attempt after `attempt`, made after
\* having slept `waited` ms; all attempts of one withRetry share the request id
RetryCall(cs, b, waited) ==
    LET prev == IF b.attempt = 0 THEN "" ELSE cs[b.cid].status
        issued == IF b.mode = ""
                  THEN vmwareStartVmWithPassword(cs, env.vmxPath, env.vmPassword,
                                                 AttemptId(b.requestId, b.attempt + 1))
                  ELSE vmwareStopVm(cs, env.vmxPath, AttemptMode(b.mode, b.attempt + 1),
                                    AttemptId(b.requestId, b.attempt + 1),
                                    env.vmPassword)
    IN  [issued EXCEPT ![Len(issued)].attempt = b.attempt + 1,
                       ![Len(issued)].waited = waited,
                       ![Len(issued)].prev = prev]

\* result of one move of a step body: the body goes on, or the step ends
Goes(b, cs, n) == [end |-> "", body |-> b, calls |-> cs, nextId |-> n, error |-> <<>>,
                   value |-> FALSE]
Ends(b, cs, n, ok, error, value) ==
    [end |-> IF ok THEN "ok" ELSE "fail", body |-> b, calls |-> cs, nextId |-> n,
     error |-> error, value |-> value]

\* tryStartVm / tryStopVm: enter withRetry and make the first attempt
tryVm(b, cs, n, mode, prefix) ==
    LET b1 == [b EXCEPT !.attempt = 0, !.lastError = "", !.mode = mode,
                        !.requestId = newRequestId(prefix, n)]
    IN  Goes([b1 EXCEPT !.stage = "retry_call", !.cid = Len(cs) + 1, !.attempt = 1],
             RetryCall(cs, b1, 0), n + 1)

tryStartVm(b, cs, n, prefix) == tryVm(b, cs, n, "", prefix)

tryStopVm(b, cs, n, mode, prefix) == tryVm(b, cs, n, mode, prefix)

\* vmIsRunning: the awaited list_running
vmIsRunning(b, cs, n, stage, prefix) ==
    Goes([b EXCEPT !.stage = stage, !.cid = Len(cs) + 1],
         vmwareListRunning(cs, newRequestId(prefix, n)), n + 1)

\* a plain step: one awaited command
CallStep(b, cs, n) ==
    Goes([b EXCEPT !.stage = "call", !.cid = Len(cs) + 1],
         CASE b.step = "trace_clear" -> traceClear(cs)
           [] b.step \in {"ssh_key_status", "ssh_key_status_after_set"} -> sshKeyStatus(cs)
           [] b.step = "ssh_set_private_key" -> sshSetPrivateKey(cs, EnvKey)
           [] b.step = "ssh_exec_hostname" -> sshExec(cs, newRequestId("ssh_exec", n))
           [] b.step = "vmware_list_running" ->
                  vmwareListRunning(cs, newRequestId("vmware_list_running", n))
           [] b.step = "vmware_status_for_known" ->
                  Invoke(cs, "vmware_status_for_known",
                         newRequestId("vmware_status_for_known", n), NoPath, "")
           [] b.step = "vmware_scan_default_vmx" ->
                  vmwareScanDefaultVmx(cs, newRequestId("vmware_scan_default_vmx", n))
           [] b.step = "vmware_scan_vmx" ->
                  vmwareScanVmx(cs, newRequestId("vmware_scan_vmx", n))
           [] OTHER -> traceList(cs),
         IF b.step \in TimedSteps THEN n + 1 ELSE n)

\* the function handed to runStep, up to its first await
StepBody(step, cs, n) ==
    LET b == [NoBody EXCEPT !.step = step]
    IN  CASE step = "vmware_stop_soft_preflight" ->
                 vmIsRunning(b, cs, n, "preflight_list", "preflight_list")
          [] step \in StartSteps -> tryStartVm(b, cs, n, step)
          [] step = "vmware_stop_soft" -> tryStopVm(b, cs, n, "soft", step)
          [] step = "vmware_stop_hard" -> tryStopVm(b, cs, n, "hard", step)
          [] OTHER -> CallStep(b, cs, n)

RetryLabel(b) ==
    IF b.mode = "" THEN "vmware_start_vm"
    ELSE IF b.mode = "soft" THEN "vmware_stop_vm(soft)" ELSE "vmware_stop_vm(hard)"

\* withRetry: the error thrown when the loop is over
RetryError(b, lastError) == <<RetryLabel(b), "failed after attempts", lastError>>

\* a withRetry that keeps the first error it saw
FirstError(prev, err) == IF prev = "" THEN err ELSE prev

\* withRetry: `lastError = err`
LastError(prev, err) == err

\* a withRetry that sleeps after every failed attempt, the last one too
SleepsAfterAlways(attempt, attempts) == TRUE

\* withRetry: `if (i < attempts - 1) await sleep(delayMs)`, i counted from 0
SleepsAfter(attempt, attempts) == attempt - 1 < attempts - 1

\* a withRetry whose loop goes round once more than it was asked to
RetryLoopOnceMore(b, cs, n, waited) ==
    IF b.attempt < RetryAttempts + 1
    THEN Goes([b EXCEPT !.stage = "retry_call", !.cid = Len(cs) + 1,
                        !.attempt = b.attempt + 1],
              RetryCall(cs, b, waited), n)
    ELSE Ends(b, cs, n, FALSE, RetryError(b, b.lastError), FALSE)

\* withRetry: the loop goes round again, or the function throws
RetryLoop(b, cs, n, waited) ==
    IF b.attempt < RetryAttempts
    THEN Goes([b EXCEPT !.stage = "retry_call", !.cid = Len(cs) + 1,
                        !.attempt = b.attempt + 1],
              RetryCall(cs, b, waited), n)
    ELSE Ends(b, cs, n, FALSE, RetryError(b, b.lastError), FALSE)

\* a withRetry wrapped around the reconciliation as well
CaughtByRetryAnywhere(stage) == stage \in {"retry_call", "check_list"}

\* the stages of a body whose exceptions are caught by withRetry
CaughtByRetry(stage) == stage = "retry_call"

\* an exception is thrown at the body's current await
Throw(b, cs, n, err) ==
    IF CaughtByRetry(b.stage)
    THEN LET b1 == [b EXCEPT !.lastError = LastError(b.lastError, err)]
         IN  IF SleepsAfter(b.attempt, RetryAttempts)
             THEN Goes([b1 EXCEPT !.stage = "retry_sleep"], cs, n)
             ELSE RetryLoop(b1, cs, n, 0)
    ELSE Ends(b, cs, n, FALSE, <<err>>, FALSE)

\* what follows the successful return of tryStartVm / tryStopVm
AfterRetry(b, cs, n) ==
    CASE b.step = "vmware_start_vm" ->
             vmIsRunning(b, cs, n, "check_list", "vmware_list_running_after_start")
      [] b.step \in StopSteps -> Goes([b EXCEPT !.stage = "settle_sleep"], cs, n)
      [] OTHER -> Ends(b, cs, n, TRUE, <<>>, FALSE)

\* vmIsRunning's answer for the list the backend returned
ListHas(list, vmxPath) == ToLowerCase(vmxPath) \in LowerSet(list)

\* the body after its awaited call resolved; cs has the call settled
BodyResolved(b, cs, n, list, present) ==
    CASE b.stage = "call" -> Ends(b, cs, n, TRUE, <<>>, present)
      [] b.stage = "preflight_list" ->
             IF ListHas(list, env.vmxPath)
             THEN tryStopVm(b, cs, n, "soft", "vmware_stop_soft_preflight")
             ELSE Ends(b, cs, n, TRUE, <<>>, FALSE)
      [] b.stage = "retry_call" -> AfterRetry(b, cs, n)
      [] OTHER ->
             IF b.step \in StartSteps /\ ~ListHas(list, env.vmxPath)
             THEN Throw(b, cs, n, "returned success but VM is not running")
             ELSE IF b.step \in StopSteps /\ ListHas(list, env.vmxPath)
             THEN Throw(b, cs, n, "returned success but VM is still running")
             ELSE Ends(b, cs, n, TRUE, <<>>, FALSE)

\* the step that follows a successful step; value is what the step returned
NextStep(step, value) ==
    CASE step = "trace_clear" -> "ssh_key_status"
      [] step = "ssh_key_status" ->
             IF value THEN "ssh_exec_hostname"
             ELSE IF ~env.keyText THEN "throw" ELSE "ssh_set_private_key"
      [] step = "ssh_set_private_key" -> "ssh_key_status_after_set"
      [] step = "ssh_key_status_after_set" ->
             IF value THEN "ssh_exec_hostname" ELSE "throw"
      [] step = "ssh_exec_hostname" -> "vmware_list_running"
      [] step = "vmware_list_running" -> "vmware_status_for_known"
      [] step = "vmware_status_for_known" ->
             IF env.vmxPath # NoPath THEN "vmware_stop_soft_preflight"
             ELSE "vmware_scan_default_vmx"
      [] step = "vmware_stop_soft_preflight" -> "vmware_start_vm"
      [] step = "vmware_start_vm" -> "vmware_stop_soft"
      [] step = "vmware_stop_soft" ->
             IF env.hardStop THEN "vmware_start_vm_for_hard_stop"
             ELSE "vmware_scan_default_vmx"
      [] step = "vmware_start_vm_for_hard_stop" -> "vmware_stop_hard"
      [] step = "vmware_stop_hard" -> "vmware_scan_default_vmx"
      [] step = "vmware_scan_default_vmx" ->
             IF env.scanRoots THEN "vmware_scan_vmx" ELSE "trace_list"
      [] step = "vmware_scan_vmx" -> "trace_list"
      [] OTHER -> "return"

Event(name, ok, error, rid) == [name |-> name, ok |-> ok, error |-> error, rid |-> rid]

\* the events pushed without runStep after a step
Skipped(step) ==
    IF step = "vmware_status_for_known" /\ env.vmxPath = NoPath
    THEN <<Event("vmware_start_stop_skipped", TRUE, <<>>, NoId)>>
    ELSE IF step = "vmware_scan_default_vmx" /\ ~env.scanRoots
    THEN <<Event("vmware_scan_vmx_skipped", TRUE, <<>>, NoId)>>
    ELSE <<>>

\* runStep: the event of a finished step
runStep(evs, res) ==
    Append(evs, Event(res.body.step, res.end = "ok", res.error, res.body.requestId))

\* the catch block of runE2EInvokeSuite up to its await
Catch(cs, n, evs) ==
    /\ calls' = traceList(cs)
    /\ nextId' = n
    /\ events' = evs
    /\ hpc' = "catch"
    /\ suite' = [suite EXCEPT !.cid = Len(cs) + 1]

\* the finally block of runE2EInvokeSuite up to its await
Finally(cs, n, evs, ok) ==
    /\ nextId' = n
    /\ events' = evs
    /\ IF env.keyText
       THEN /\ calls' = sshClearPrivateKey(cs)
            /\ hpc' = "finally"
            /\ suite' = [suite EXCEPT !.ok = ok, !.cid = Len(cs) + 1]
       ELSE /\ calls' = cs
            /\ hpc' = "report"
            /\ suite' = [suite EXCEPT !.ok = ok, !.cid = 0]

\* the awaited runStep returned or threw: the suite moves on
StepEnded(res) ==
    LET evs == runStep(events, res)
        next == NextStep(res.body.step, res.value)
    IN  IF res.end = "fail" \/ next = "throw"
        THEN Catch(res.calls, res.nextId, evs) /\ body' = NoBody
        ELSE IF next = "return"
        THEN Finally(res.calls, res.nextId, evs, TRUE) /\ body' = NoBody
        ELSE LET r == StepBody(next, res.calls, res.nextId)
             IN  /\ calls' = r.calls
                 /\ nextId' = r.nextId
                 /\ body' = r.body
                 /\ events' = evs \o Skipped(res.body.step)
                 /\ UNCHANGED <<hpc, suite>>

\* a move of the step body; an abandoned body ends without anyone awaiting it
BodyMove(res) ==
    /\ IF res.end = "" \/ abandoned
       THEN /\ body' = IF res.end = "" THEN res.body ELSE NoBody
            /\ calls' = res.calls
            /\ nextId' = res.nextId
            /\ UNCHANGED <<events, hpc, suite>>
       ELSE StepEnded(res)
    /\ UNCHANGED abandoned
    /\ UNCHANGED <<env, userActions>>
    /\ UNCHANGED appVars
    /\ UNCHANGED keyVars
    /\ UNCHANGED scanVars

\* an entry point that does not look at the flag
NeverRunning(flag) == FALSE

\* maybeRunE2EInvokeSuite: `if (globalAny.__TAURI_APP_E2E_RUNNING__) return;`
AlreadyRunning(flag) == flag

\* maybeRunE2EInvokeSuite past its guard: the flag is set and a run starts
Entered(su) == [su EXCEPT !.running = TRUE, !.runs = @ + 1]

\* maybeRunE2EInvokeSuite, then runE2EInvokeSuite from its start to the first await
E2EBegin ==
    /\ hpc = "begin"
    /\ ~AlreadyRunning(suite.running)
    /\ suite' = Entered(suite)
    /\ IF ~buildSshFromEnv(env)
       THEN /\ events' = <<Event("env_check", FALSE, <<"missing ssh settings">>, NoId)>>
            /\ hpc' = "report"
            /\ UNCHANGED <<calls, nextId, body>>
       ELSE LET r == StepBody("trace_clear", calls, nextId)
            IN  /\ calls' = r.calls
                /\ nextId' = r.nextId
                /\ body' = r.body
                /\ hpc' = "step"
                /\ UNCHANGED events
    /\ UNCHANGED <<env, traceStore, traceSeq, remoteRunning, keyStored, abandoned, userActions>>
    /\ UNCHANGED appVars
    /\ UNCHANGED keyVars
    /\ UNCHANGED scanVars

\* the entry point is called once more while the page lives; a run it would
\* start is counted, its steps are not followed
E2EEnterAgain ==
    /\ env.e2e /\ env.secondEntry
    /\ hpc \notin {"begin", "done"}
    /\ ~suite.again
    /\ suite' = IF AlreadyRunning(suite.running) THEN [suite EXCEPT !.again = TRUE]
                ELSE [Entered(suite) EXCEPT !.again = TRUE]
    /\ UNCHANGED <<env, nextId, userActions, hpc, body, abandoned, events>>
    /\ UNCHANGED backendVars
    /\ UNCHANGED appVars
    /\ UNCHANGED keyVars
    /\ UNCHANGED scanVars

BodyRuns == body.stage # "idle" /\ (hpc = "step" \/ (abandoned /\ hpc # "done"))

\* how the command awaited by the step body may settle
BodyOutcomes == IF body.cid \in DOMAIN calls THEN Outcomes(calls[body.cid].op) ELSE {}

\* the command awaited by the step body settles
E2EBodySettled(out) ==
    /\ BodyRuns
    /\ body.stage \in {"call", "preflight_list", "retry_call", "check_list"}
    /\ \E rr \in RemoteAfter(remoteRunning, calls[body.cid], out.ok) :
           BackendSettle(body.cid, out.ok, rr)
    /\ LET cs == Settle(calls, body.cid, out.ok, out.err)
       IN  BodyMove(IF ~out.ok THEN Throw(body, cs, nextId, out.err)
                    ELSE IF abandoned /\ body.stage = "preflight_list"
                    THEN Ends(body, cs, nextId, TRUE, <<>>, FALSE)
                    ELSE BodyResolved(body, cs, nextId, remoteRunning, keyStored))

\* a sleep of the step body is over
E2ESleepElapsed ==
    /\ BodyRuns
    /\ body.stage \in {"retry_sleep", "settle_sleep"}
    /\ BodyMove(IF body.stage = "retry_sleep"
                THEN RetryLoop([body EXCEPT !.slept = @ + 1], calls, nextId, RetryDelayMs)
                ELSE vmIsRunning(body, calls, nextId, "check_list",
                                 IF body.mode = "hard"
                                 THEN "vmware_list_running_after_stop_hard"
                                 ELSE "vmware_list_running_after_stop_soft"))
    /\ UNCHANGED <<traceStore, traceSeq, remoteRunning, keyStored>>

\* the part of a step that runs under withTimeout
Timed(b) ==
    /\ b.step \in TimedSteps
    /\ b.step = "vmware_stop_soft_preflight" => b.stage = "preflight_list"

\* withTimeout: the timer fires first; the body goes on with nobody awaiting it
E2ETimeout ==
    /\ env.shortTimeout
    /\ hpc = "step" /\ ~abandoned /\ body.stage # "idle" /\ Timed(body)
    /\ abandoned' = TRUE
    /\ Catch(calls, nextId,
             Append(events, Event(body.step, FALSE, <<"timed out">>, body.requestId)))
    /\ UNCHANGED <<env, traceStore, traceSeq, remoteRunning, keyStored, body, userActions>>
    /\ UNCHANGED appVars
    /\ UNCHANGED keyVars
    /\ UNCHANGED scanVars

\* the catch block's trace_list settles (errors ignored); the finally block runs
E2ECatchSettled(out) ==
    /\ hpc = "catch"
    /\ BackendSettle(suite.cid, out.ok, remoteRunning)
    /\ Finally(Settle(calls, suite.cid, out.ok, out.err), nextId, events, FALSE)
    /\ UNCHANGED <<env, body, abandoned, userActions>>
    /\ UNCHANGED appVars
    /\ UNCHANGED keyVars
    /\ UNCHANGED scanVars

\* the finally block's ssh_clear_private_key settles (errors ignored)
E2EFinallySettled(out) ==
    /\ hpc = "finally"
    /\ BackendSettle(suite.cid, out.ok, remoteRunning)
    /\ calls' = Settle(calls, suite.cid, out.ok, out.err)
    /\ hpc' = "report"
    /\ suite' = [suite EXCEPT !.cid = 0]
    /\ UNCHANGED <<env, body, abandoned, events, nextId, userActions>>
    /\ UNCHANGED appVars
    /\ UNCHANGED keyVars
    /\ UNCHANGED scanVars

\* maybeRunE2EInvokeSuite after the suite returned: the report line, then e2e_exit
E2EReport ==
    /\ hpc = "report"
    /\ suite' = [suite EXCEPT !.line = IF suite.ok THEN "PASS" ELSE "FAIL",
                              !.code = IF suite.ok THEN 0 ELSE 1,
                              !.cid = Len(calls) + 1]
    /\ calls' = Invoke(calls, "e2e_exit", NoId, NoPath, IF suite.ok THEN "0" ELSE "1")
    /\ hpc' = "exit"
    /\ UNCHANGED <<env, traceStore, traceSeq, remoteRunning, keyStored, body, abandoned,
                   events, nextId, userActions>>
    /\ UNCHANGED appVars
    /\ UNCHANGED keyVars
    /\ UNCHANGED scanVars

\* e2e_exit: the process ends
E2EExit ==
    /\ hpc = "exit"
    /\ BackendSettle(suite.cid, TRUE, remoteRunning)
    /\ calls' = Settle(calls, suite.cid, TRUE, "")
    /\ hpc' = "done"
    /\ UNCHANGED <<env, body, abandoned, events, suite, nextId, userActions>>
    /\ UNCHANGED appVars
    /\ UNCHANGED keyVars
    /\ UNCHANGED scanVars

----------------------------------------------------------------------------
(* The system *)

KnownVmSet == {knownVms[i] : i \in DOMAIN knownVms}

\* the console page: clicks, and the handlers' awaited calls settling
ConsoleNext ==
    \/ AppRefreshClick
    \/ \E password \in Passwords : AppChangeVmPassword(password)
    \/ \E vm \in KnownVmSet : AppStartClick(vm)
    \/ \E vm \in KnownVmSet : AppStopOpen(vm)
    \/ AppStopCancel
    \/ \E mode \in {"soft", "hard"} : AppStopConfirm(mode)
    \/ \E t \in tasks : \E out \in Outcomes(calls[t.cid].op) : refresh(t, out)
    \/ \E t \in tasks : \E out \in Outcomes(calls[t.cid].op) : startVm(t, out)
    \/ \E t \in tasks : \E out \in Outcomes(calls[t.cid].op) : stopVm(t, out)

\* the trace list of the settings page
TracesNext ==
    \/ AppRefreshTracesClick
    \/ AppClearClick
    \/ \E t \in tasks : \E out \in Outcomes(calls[t.cid].op) : refreshTraces(t, out)
    \/ \E t \in tasks : \E out \in Outcomes(calls[t.cid].op) : clearTraces(t, out)

\* the scan wizard
ScanNext ==
    \/ \E m \in {"custom", "default"} : AppSetScanMode(m)
    \/ AppRunScanClick
    \/ \E t \in tasks : \E out \in Outcomes(calls[t.cid].op) : runScan(t, out)

\* the private key on the settings page
KeyNext ==
    \/ \E keyText \in UploadKeys : AppUploadKey(keyText)
    \/ AppClearKey
    \/ \E t \in tasks : \E out \in CallOutcomes(calls[t.cid]) : uploadSshKeyText(t, out)
    \/ \E t \in tasks : \E out \in Outcomes(calls[t.cid].op) : clearSshKey(t, out)
    \/ \E t \in tasks : \E out \in Outcomes(calls[t.cid].op) : refreshKeyStatus(t, out)

\* the list of known VMs and the import of the scan wizard
VmsNext ==
    \/ \E vmxPath \in AddInputs : AppAddVmByPath(vmxPath)
    \/ \E vm \in KnownVmSet : AppRemoveVm(vm.id)
    \/ \E vm \in KnownVmSet : \E pinned \in BOOLEAN : AppPinVm(vm.id, pinned)
    \/ \E ticked \in SUBSET {scanResults[k] : k \in DOMAIN scanResults} :
           AppImportSelected(ticked)

\* the invoke suite
E2ENext ==
    \/ E2EBegin
    \/ E2EEnterAgain
    \/ \E out \in BodyOutcomes : E2EBodySettled(out)
    \/ E2ESleepElapsed
    \/ E2ETimeout
    \/ \E out \in Outcomes("trace_list") : E2ECatchSettled(out)
    \/ \E out \in Outcomes("ssh_clear_private_key") : E2EFinallySettled(out)
    \/ E2EReport
    \/ E2EExit

NoSuite ==
    [ok |-> FALSE, cid |-> 0, line |-> "", code |-> -1, running |-> FALSE, runs |-> 0,
     again |-> FALSE]

\* the suite is off: VITE_E2E is not set
E2EOff ==
    /\ hpc = "off"
    /\ body = NoBody
    /\ abandoned = FALSE
    /\ events = <<>>
    /\ suite = NoSuite

AppEnv(scope, budget) ==
    [e2e |-> FALSE, scope |-> scope, budget |-> budget, host |-> TRUE, user |-> TRUE,
     vmxPath |-> NoPath, vmPassword |-> "", keyText |-> FALSE, scanRoots |-> FALSE,
     hardStop |-> FALSE, shortTimeout |-> FALSE, secondEntry |-> FALSE]

InitApp(scope, budget) ==
    /\ env = AppEnv(scope, budget)
    /\ traceStore = <<>>
    /\ traceSeq = 0
    /\ remoteRunning \in {{}, {VmxALower}}
    /\ keyStored = TRUE
    /\ AppInit
    /\ E2EOff

\* the settings page with the mount effect's calls in flight
InitKey(budget) ==
    /\ env = AppEnv("key", budget)
    /\ remoteRunning = {}
    /\ traceStore = TraceRecord(<<>>, 1, MountCalls[2], 2, TRUE, Len(MountCalls))
    /\ traceSeq = 1
    /\ keyStored \in BOOLEAN
    /\ AppInitKey
    /\ E2EOff

\* the list of known VMs, loaded from what local storage holds
InitVms(budget) ==
    /\ env = AppEnv("vms", budget)
    /\ remoteRunning = {}
    /\ traceSeq = 1
    /\ keyStored = TRUE
    /\ \E stored \in StoredLists, log \in StoredLogs :
           /\ traceStore = TraceRecord(<<>>, 1, MountCallsFrom(IdsAfterLoad(stored, 0))[2],
                                       2, TRUE, Len(MountCalls))
           /\ AppInitVms(stored, log)
    /\ E2EOff

\* the VITE_E2E_* settings; ssh: host and user are both set
\* shortTimeout: VITE_E2E_TIMEOUT_MS is small enough for a timer to fire first
\* secondEntry: the entry point is called a second time (main.tsx evaluated again)
\* the runs with a hard stop are the ones given a VM password
E2EEnv(ssh, vmxPath, keyText, scanRoots, hardStop, shortTimeout) ==
    [e2e |-> TRUE, scope |-> "e2e", budget |-> 0, host |-> ssh, user |-> ssh,
     vmxPath |-> vmxPath, vmPassword |-> IF hardStop THEN "pwE" ELSE "",
     keyText |-> keyText, scanRoots |-> scanRoots, hardStop |-> hardStop,
     shortTimeout |-> shortTimeout, secondEntry |-> FALSE]

E2EEnvs ==
    {[E2EEnv(FALSE, NoPath, FALSE, FALSE, FALSE, FALSE) EXCEPT !.host = hu[1],
                                                               !.user = hu[2],
                                                               !.keyText = hu[1]] :
         hu \in {x \in BOOLEAN \X BOOLEAN : ~(x[1] /\ x[2])}} \cup
    {[E2EEnv(FALSE, NoPath, FALSE, FALSE, FALSE, FALSE) EXCEPT !.secondEntry = TRUE],
     [E2EEnv(TRUE, NoPath, FALSE, FALSE, FALSE, FALSE) EXCEPT !.secondEntry = TRUE]} \cup
    {E2EEnv(TRUE, p, k, r, h, FALSE) : p \in {VmxA}, k \in BOOLEAN, r \in {FALSE}, h \in BOOLEAN}
    \cup {E2EEnv(TRUE, NoPath, TRUE, TRUE, FALSE, FALSE),
          E2EEnv(TRUE, VmxA, FALSE, FALSE, FALSE, TRUE)}

\* main.tsx: maybeRunE2EInvokeSuite() is about to run, the App is not mounted yet
InitE2E ==
    /\ env \in E2EEnvs
    /\ calls = <<>>
    /\ traceStore = <<>>
    /\ traceSeq = 0
    /\ remoteRunning \in {{}, {VmxALower}}
    /\ keyStored \in BOOLEAN
    /\ knownVms = <<[id |-> "vm1", vmxPath |-> VmxA, pinned |-> FALSE],
                    [id |-> "vm2", vmxPath |-> VmxB, pinned |-> FALSE]>>
    /\ runningVmxPaths = {}
    /\ isRefreshing = FALSE
    /\ globalError = ""
    /\ actionVmId = ""
    /\ actionText = ""
    /\ opLog = <<>>
    /\ toasts = <<>>
    /\ traces = <<>>
    /\ isTracesLoading = FALSE
    /\ sshKeyPresent = "unknown"
    /\ stopConfirmVm = NoVm
    /\ vmPassword = ""
    /\ isKeyWorking = FALSE
    /\ scanMode = "custom"
    /\ isScanning = FALSE
    /\ scanResults = <<>>
    /\ scanError = ""
    /\ tasks = {}
    /\ nextId = 1
    /\ userActions = 0
    /\ hpc = "begin"
    /\ body = NoBody
    /\ abandoned = FALSE
    /\ events = <<>>
    /\ suite = NoSuite

Init ==
    \/ InitApp("console", MaxUserActions)
    \/ InitApp("traces", MaxTraceActions)
    \/ InitApp("scan", MaxUserActions)
    \/ InitKey(MaxKeyActions)
    \/ InitVms(MaxVmActions)
    \/ InitE2E

Next ==
    \/ ConsoleNext
    \/ TracesNext
    \/ ScanNext
    \/ KeyNext
    \/ VmsNext
    \/ E2ENext

Spec == Init /\ [][Next]_vars

----------------------------------------------------------------------------
(* Start and stop requests in flight *)

VmOps == {"vmware_start_vm", "vmware_stop_vm"}

InFlight(path) ==
    {i \in DOMAIN calls : /\ calls[i].op \in VmOps
                          /\ calls[i].status = "pending"
                          /\ ToLowerCase(calls[i].path) = ToLowerCase(path)}

\* C1: for any machine definition path at most one start or stop request is in
\* flight, and while one is in flight the controls of that machine stay locked
C1_OneInFlightPerPath ==
    \A vm \in KnownVmSet :
        /\ Cardinality(InFlight(vm.vmxPath)) <= 1
        /\ InFlight(vm.vmxPath) # {} => IsBusy(vm)

----------------------------------------------------------------------------
(* Reconciliation of start and stop *)

Prefix(rid) == IF Len(rid) = 0 THEN "" ELSE rid[1]

\* a list_running answer, asked for after call c had succeeded
ListsAfter(c) ==
    {l \in DOMAIN calls : /\ calls[l].op = "vmware_list_running"
                          /\ calls[l].status = "ok"
                          /\ calls[l].issuedAfter >= calls[c].settledAt}

\* the request ids of the start / stop operations reported as successful: the
\* harness's ok events and the console's success records
ReportedOk(steps, action) ==
    {events[k].rid : k \in {k \in DOMAIN events : events[k].name \in steps /\ events[k].ok}}
    \cup {opLog[k].requestId :
              k \in {k \in DOMAIN opLog : /\ opLog[k].action = action
                                          /\ opLog[k].status = "success"}}

OkCallsOf(rid) ==
    {c \in DOMAIN calls : /\ calls[c].requestId = rid
                          /\ calls[c].op \in VmOps
                          /\ calls[c].status = "ok"}

\* C3: a start is reported as successful only if a list_running asked for after
\* the start command succeeded shows the path (compared without case)
C3_StartReconciled ==
    \A rid \in ReportedOk(StartSteps, "start_vm") :
        \E c \in OkCallsOf(rid) :
            \E l \in ListsAfter(c) : ListHas(calls[l].value, calls[c].path)

\* C4: a stop (soft or hard) is reported as successful only if a list_running
\* asked for after the stop command succeeded no longer shows the path
C4_StopReconciled ==
    \A rid \in ReportedOk(StopSteps, "stop_vm") :
        \E c \in OkCallsOf(rid) :
            \E l \in ListsAfter(c) : ~ListHas(calls[l].value, calls[c].path)

----------------------------------------------------------------------------
(* withRetry *)

\* the attempts made for one logical start / stop (they share its request id)
Attempts(rid) == {i \in DOMAIN calls : calls[i].attempt > 0 /\ calls[i].requestId = rid}

LastAttempt(rid) ==
    CHOOSE j \in Attempts(rid) : \A k \in Attempts(rid) : calls[k].attempt <= calls[j].attempt

\* the step failed because withRetry gave up
RetryFailed(e) == Len(e.error) = 3 /\ e.error[2] = "failed after attempts"

\* C2: a logical start / stop is attempted at most twice; the second attempt is
\* made only after the first has failed and after the fixed backoff; nothing is
\* attempted after a success; there is no wait after the last attempt; and the
\* operation fails only when both attempts have failed
C2_TwoAttempts ==
    /\ \A i \in DOMAIN calls :
           /\ calls[i].op \in VmOps =>
                  Cardinality({j \in DOMAIN calls :
                                   calls[j].requestId = calls[i].requestId}) <= 2
           /\ calls[i].attempt > 0 =>
                  /\ calls[i].attempt <= 2
                  /\ \A j \in Attempts(calls[i].requestId) :
                         j # i => calls[j].attempt # calls[i].attempt
                  /\ calls[i].attempt = 1 => calls[i].waited = 0 /\ calls[i].prev = ""
                  /\ calls[i].attempt = 2 =>
                         /\ calls[i].waited = 800
                         /\ calls[i].prev = "err"
                         /\ \E j \in Attempts(calls[i].requestId) :
                                j < i /\ calls[j].attempt = 1 /\ calls[j].status = "err"
                  /\ calls[i].status = "ok" =>
                         \A j \in Attempts(calls[i].requestId) : j <= i
    /\ body.stage = "retry_sleep" => body.attempt < 2 /\ calls[body.cid].status = "err"
    /\ \A k \in DOMAIN events :
           RetryFailed(events[k]) =>
               \A a \in {1, 2} :
                   \E j \in Attempts(events[k].rid) :
                       calls[j].attempt = a /\ calls[j].status = "err"

\* a second attempt was made, and one operation failed for good
C2_Witness ==
    /\ \E i \in DOMAIN calls : calls[i].attempt = 2 /\ calls[i].status = "ok"
    /\ \E k \in DOMAIN events : RetryFailed(events[k])

\* the step a reconciling list_running belongs to
CheckedStep(prefix) ==
    CASE prefix = "vmware_list_running_after_start" -> "vmware_start_vm"
      [] prefix = "vmware_list_running_after_stop_soft" -> "vmware_stop_soft"
      [] prefix = "vmware_list_running_after_stop_hard" -> "vmware_stop_hard"
      [] OTHER -> ""

\* the reconciling list_running l failed or contradicts the step's command
Disagrees(l) ==
    \/ calls[l].status = "err"
    \/ /\ calls[l].status = "ok"
       /\ ListHas(calls[l].value, env.vmxPath)
              # (CheckedStep(Prefix(calls[l].requestId)) = "vmware_start_vm")

\* the error the step reports for it
DisagreeError(l) ==
    IF calls[l].status = "err" THEN <<calls[l].err>>
    ELSE IF CheckedStep(Prefix(calls[l].requestId)) = "vmware_start_vm"
    THEN <<"returned success but VM is not running">>
    ELSE <<"returned success but VM is still running">>

Checks == {l \in DOMAIN calls : CheckedStep(Prefix(calls[l].requestId)) # ""}

\* C5: only the command is retried.  Once an attempt has succeeded and the state
\* is being reconciled, no further attempt of that step is made, and a
\* reconciliation that fails or disagrees fails the step at once
C5_NoRetryAfterReconcile ==
    \A l \in Checks :
        LET step == CheckedStep(Prefix(calls[l].requestId))
        IN  /\ \A c \in DOMAIN calls :
                   calls[c].attempt > 0 /\ Prefix(calls[c].requestId) = step => c < l
            /\ Disagrees(l) =>
                   \E k \in DOMAIN events :
                       /\ events[k].name = step
                       /\ ~events[k].ok
                       /\ abandoned \/ events[k].error = DisagreeError(l)

\* a start that succeeded on its second attempt is contradicted by the list
C5_Witness ==
    \E l \in Checks :
        /\ calls[l].status = "ok"
        /\ Disagrees(l)
        /\ ~abandoned
        /\ \E c \in DOMAIN calls :
               /\ calls[c].attempt = 2
               /\ Prefix(calls[c].requestId) = CheckedStep(Prefix(calls[l].requestId))

\* C6: when every attempt has failed the reported failure carries the error of
\* the last attempt; when an attempt succeeded no earlier error is reported
C6_LastErrorSurfaced ==
    \A k \in DOMAIN events :
        LET e == events[k]
        IN  /\ RetryFailed(e) =>
                   /\ Attempts(e.rid) # {}
                   /\ calls[LastAttempt(e.rid)].status = "err"
                   /\ e.error[3] = calls[LastAttempt(e.rid)].err
            /\ e.ok => e.error = <<>>
            /\ (\E j \in Attempts(e.rid) : calls[j].status = "ok") => ~RetryFailed(e)

\* both attempts failed, with different errors
C6_Witness ==
    \E k \in DOMAIN events :
        /\ RetryFailed(events[k])
        /\ \E i, j \in Attempts(events[k].rid) :
               i < j /\ calls[i].err = "E1" /\ calls[j].err = "E2"

\* C7: a soft stop is never turned into a hard one: every attempt of a soft stop
\* is sent as soft, and a hard stop is sent only where it was asked for (in the
\* harness only with the hard-stop flag set)
C7_SoftStaysSoft ==
    /\ \A i \in DOMAIN calls :
           calls[i].op = "vmware_stop_vm" /\ calls[i].attempt > 0 =>
               /\ calls[i].mode =
                      IF Prefix(calls[i].requestId) = "vmware_stop_hard" THEN "hard"
                      ELSE "soft"
               /\ calls[i].mode = "hard" => env.hardStop
    /\ \A t \in tasks :
           t.fn = "stopVm" /\ t.phase = "call" => calls[t.cid].mode = t.mode

\* with the hard-stop flag set, a soft stop has been attempted a second time
C7_Witness ==
    /\ env.hardStop
    /\ \E i \in DOMAIN calls :
           /\ calls[i].op = "vmware_stop_vm"
           /\ calls[i].attempt = 2
           /\ calls[i].status # "pending"
           /\ Prefix(calls[i].requestId) = "vmware_stop_soft"

----------------------------------------------------------------------------
(* List and scan requests *)

ListScanOps == {"vmware_list_running", "vmware_scan_default_vmx", "vmware_scan_vmx"}

\* the harness step a list / scan call of the harness belongs to
StepOfList(prefix) ==
    IF prefix = "preflight_list" THEN "vmware_stop_soft_preflight"
    ELSE IF CheckedStep(prefix) # "" THEN CheckedStep(prefix)
    ELSE prefix

\* the failure of list / scan call i has been shown: in the console's operation
\* log (which the clear button of the settings page empties), or as the failed
\* event of the harness step
Surfaced(i) ==
    IF env.e2e
    THEN \E k \in DOMAIN events :
             /\ events[k].name = StepOfList(Prefix(calls[i].requestId))
             /\ ~events[k].ok
             /\ events[k].error \in {<<calls[i].err>>, <<"timed out">>}
    ELSE \/ env.scope = "traces"
         \/ \E k \in DOMAIN opLog :
                /\ opLog[k].requestId = calls[i].requestId
                /\ opLog[k].status = "error"
                /\ opLog[k].error = calls[i].err

OneInvocationEach ==
    \A i \in DOMAIN calls :
        calls[i].op \in ListScanOps =>
            /\ \A j \in DOMAIN calls : calls[j].requestId = calls[i].requestId => j = i
            /\ env.e2e =>
                   \A j \in DOMAIN calls :
                       Prefix(calls[j].requestId) = Prefix(calls[i].requestId) => j = i
            /\ calls[i].status = "err" => Surfaced(i)

\* the step in which a list / scan call fails issues no list / scan call
NoSecondInvocation ==
    \A i \in DOMAIN calls :
        (/\ calls[i].op \in ListScanOps
         /\ calls[i].status = "pending"
         /\ calls'[i].status = "err")
        => \A j \in DOMAIN calls' : j > Len(calls) => calls'[j].op \notin ListScanOps

\* C8: every list_running / scan_default / scan_roots request is one backend
\* invocation, and its failure is shown without a second invocation
C8_OneInvocation == []OneInvocationEach /\ [][NoSecondInvocation]_vars

\* a scan has failed: in the wizard, where the error is shown, or in a harness
\* run that went on to its end
C8_Witness ==
    \E i \in DOMAIN calls :
        /\ calls[i].op \in {"vmware_scan_vmx", "vmware_scan_default_vmx"}
        /\ calls[i].status = "err"
        /\ \/ ~env.e2e /\ scanError = calls[i].err
           \/ env.e2e /\ hpc = "done"

----------------------------------------------------------------------------
(* The trace ledger *)

SettledRemote == {i \in DOMAIN calls : calls[i].op \in RemoteOps /\ calls[i].status # "pending"}

\* C9: every remote execution has exactly one ledger entry once its call has
\* returned, whether it succeeded or failed; none is dropped or written twice;
\* durations are never negative
C9_OneTracePerExecution ==
    /\ \A i \in DOMAIN calls : calls[i].traced = IF i \in SettledRemote THEN 1 ELSE 0
    /\ traceSeq = Cardinality(SettledRemote)
    /\ \A k \in DOMAIN traceStore :
           /\ traceStore[k].durationMs >= 0
           /\ traceStore[k].call \in SettledRemote
           /\ traceStore[k].ok = (calls[traceStore[k].call].status = "ok")
           /\ traceStore[k].requestId = calls[traceStore[k].call].requestId
           /\ \A m \in DOMAIN traceStore : traceStore[m].call = traceStore[k].call => m = k

\* the ledger holds the entry of a failed and of a successful execution
C9_Witness ==
    /\ \E k \in DOMAIN traceStore : ~traceStore[k].ok
    /\ \E k \in DOMAIN traceStore : traceStore[k].ok

OkCalls(op) == {i \in DOMAIN calls : calls[i].op = op /\ calls[i].status = "ok"}

Latest(S) == CHOOSE i \in S : \A j \in S : calls[j].settledAt <= calls[i].settledAt

\* the remote executions completed after trace_clear k and before trace_list l
Between(k, l) ==
    {i \in SettledRemote : /\ calls[k].settledAt < calls[i].settledAt
                           /\ calls[i].settledAt < calls[l].settledAt}

\* the settings page shows the answer of the latest trace_list, which came
\* after the latest trace_clear
ListedAfterClear ==
    /\ env.scope = "traces"
    /\ OkCalls("trace_list") # {}
    /\ OkCalls("trace_clear") # {}
    /\ calls[Latest(OkCalls("trace_clear"))].settledAt
           < calls[Latest(OkCalls("trace_list"))].settledAt

\* C10: trace_list after trace_clear returns nothing; with a single list_running
\* in between it returns exactly one entry, whose request id is the one the
\* caller supplied
C10_ClearThenList ==
    ListedAfterClear =>
        LET between == Between(Latest(OkCalls("trace_clear")), Latest(OkCalls("trace_list")))
        IN  /\ between = {} => traces = <<>>
            /\ \A i \in between :
                   between = {i} /\ calls[i].op = "vmware_list_running" =>
                       /\ Len(traces) = 1
                       /\ traces[1].requestId = calls[i].supplied
                       /\ traces[1].action = "vmware_list_running"

\* one list_running ran between the clear and the list
C10_Witness ==
    /\ ListedAfterClear
    /\ \E i \in Between(Latest(OkCalls("trace_clear")), Latest(OkCalls("trace_list"))) :
           /\ Between(Latest(OkCalls("trace_clear")), Latest(OkCalls("trace_list"))) = {i}
           /\ calls[i].op = "vmware_list_running"
           /\ calls[i].supplied # NoId

----------------------------------------------------------------------------
(* The credential state *)

KeyOps == {"ssh_set_private_key", "ssh_clear_private_key"}

\* the successful set / clear calls completed before the n-th completion
OkKeyCallsBefore(n) ==
    {i \in DOMAIN calls : /\ calls[i].op \in KeyOps
                          /\ calls[i].status = "ok"
                          /\ calls[i].settledAt < n}

\* the most recent successful call among S was a set
LastWasSet(S) == calls[Latest(S)].op = "ssh_set_private_key"

\* every answer of ssh_key_status, and the answer a query would get now, is the
\* one the most recent successful set / clear calls for; the suite, having set
\* the key, finds it present
StatusFollowsSetClear ==
    /\ \A i \in DOMAIN calls :
           /\ calls[i].op = "ssh_key_status"
           /\ calls[i].status = "ok"
           /\ OkKeyCallsBefore(calls[i].settledAt) # {}
           => calls[i].present = LastWasSet(OkKeyCallsBefore(calls[i].settledAt))
    /\ OkKeyCallsBefore(Len(calls) + 1) # {}
           => keyStored = LastWasSet(OkKeyCallsBefore(Len(calls) + 1))
    /\ (/\ events # <<>>
        /\ events[Len(events)].name = "ssh_key_status_after_set"
        /\ events[Len(events)].ok) => hpc = "step"

\* a set or clear that fails leaves the credential state as it was
FailedKeyCallKeeps ==
    \A i \in DOMAIN calls :
        (/\ calls[i].op \in KeyOps
         /\ calls[i].status = "pending"
         /\ calls'[i].status = "err") => keyStored' = keyStored

\* C11: after any sequence of set and clear calls the status query reports the
\* key present exactly when the most recent successful call was a set; right
\* after a successful set it reports present, after a clear absent, and a set
\* that fails leaves the flag unchanged
C11_StatusFollowsSetClear == []StatusFollowsSetClear /\ [][FailedKeyCallKeeps]_vars

\* a set succeeded, the status query answered after it, and a later set failed
\* with the key still stored
C11_Witness ==
    /\ keyStored
    /\ \E i \in DOMAIN calls :
           /\ calls[i].op = "ssh_key_status"
           /\ calls[i].status = "ok"
           /\ OkKeyCallsBefore(calls[i].settledAt) # {}
    /\ \E j \in DOMAIN calls :
           /\ calls[j].op = "ssh_set_private_key"
           /\ calls[j].status = "err"
           /\ OkKeyCallsBefore(calls[j].settledAt) # {}

\* C12: an empty key text, or one above the ceiling, is refused with a
\* validation error before it is stored; on every upload path of the user such
\* a text never reaches ssh_set_private_key, and the credential state stays as
\* it was
C12_InvalidKeyNeverSent ==
    \A i \in DOMAIN calls :
        calls[i].op = "ssh_set_private_key" =>
            /\ ValidKey(calls[i].keyText)
            /\ calls[i].status = "err" /\ ~ValidKey(calls[i].keyText)
                   => calls[i].err = "ValidationError"

----------------------------------------------------------------------------
(* Secrets and what is recorded *)

\* the secret texts that have been in use: key texts and VM passwords
SecretTexts ==
    ({calls[i].keyText.text : i \in DOMAIN calls}
     \cup {calls[i].vmPassword : i \in DOMAIN calls}
     \cup {vmPassword, env.vmPassword}) \ {""}

\* the texts recorded or shown: log entries, suite events, toasts, error texts
RecordedTexts ==
    UNION {{opLog[k].action, opLog[k].status, opLog[k].error, opLog[k].meta.summary,
            opLog[k].meta.mode} : k \in DOMAIN opLog}
    \cup UNION {{events[k].name} \cup {events[k].error[n] : n \in DOMAIN events[k].error} :
                    k \in DOMAIN events}
    \cup UNION {{toasts[k].kind, toasts[k].title} : k \in DOMAIN toasts}
    \cup {globalError, scanError}

\* the commands that are handed a secret
SecretOps == {"ssh_set_private_key", "vmware_start_vm", "vmware_stop_vm"}

LogActionOf(op) ==
    CASE op = "ssh_set_private_key" -> "upload_key"
      [] op = "vmware_start_vm" -> "start_vm"
      [] OTHER -> "stop_vm"

\* the request id under which the handler of call c logs
RidOf(c) == IF c.supplied # NoId THEN c.supplied ELSE c.requestId

\* the entry the handler of call c records once c has ended the way it did
EntryFor(c) ==
    [action |-> LogActionOf(c.op),
     status |-> IF c.status = "ok" THEN "success" ELSE "error",
     requestId |-> RidOf(c),
     error |-> c.err,
     meta |-> IF c.op = "ssh_set_private_key" THEN UploadMeta(c.keyText)
              ELSE VmMeta([vmxPath |-> c.path, mode |-> c.mode])]

\* log entry k is the record of call i
Logged(k, i) ==
    /\ calls[i].op \in SecretOps
    /\ calls[i].status # "pending"
    /\ opLog[k].requestId = RidOf(calls[i])
    /\ opLog[k].action = LogActionOf(calls[i].op)

\* call c as it is in a run that differs in the secret values only
Twins(c) ==
    {[c EXCEPT !.keyText = k, !.vmPassword = pw] :
         k \in IF c.op = "ssh_set_private_key" THEN UploadKeys ELSE {c.keyText},
         pw \in IF c.op = "ssh_set_private_key" THEN {c.vmPassword} ELSE Passwords}

\* the original statement of C13: nothing recorded contains a secret, and two
\* runs that differ only in the secret values record the same entries
C13_NothingOfTheSecrets ==
    /\ SecretTexts \cap RecordedTexts = {}
    /\ \A k \in DOMAIN opLog : \A i \in DOMAIN calls :
           Logged(k, i) => \A c \in Twins(calls[i]) : EntryFor(c) = opLog[k]

\* C13: no log entry, suite event or error text contains the private-key text
\* or the VM password; two runs that differ only in the secret values, with
\* every backend call ending the same way, record the same entries but for the
\* length of the key text noted with an upload
C13_OnlyTheKeySize ==
    /\ SecretTexts \cap RecordedTexts = {}
    /\ \A k \in DOMAIN opLog : \A i \in DOMAIN calls :
           Logged(k, i) =>
               \A c \in Twins(calls[i]) :
                   c.keyText.length = calls[i].keyText.length => EntryFor(c) = opLog[k]

\* an upload of a key has been logged, and another key of the same length exists
C13_Witness ==
    \E k \in DOMAIN opLog : \E i \in DOMAIN calls :
        /\ Logged(k, i)
        /\ calls[i].op = "ssh_set_private_key"
        /\ calls[i].status = "ok"
        /\ \E c \in Twins(calls[i]) :
               c.keyText # calls[i].keyText /\ c.keyText.length = calls[i].keyText.length

----------------------------------------------------------------------------
(* The suite: environment, order of the calls, report *)

\* the suite is enabled and the host or the user is not set
EnvAbsent == env.e2e /\ ~(env.host /\ env.user)

\* C14: when the host or the user setting is absent the suite fails fast: it
\* reports a failure, and the only backend operation it ever invokes is the
\* final exit call, with code 1
C14_FailFast ==
    EnvAbsent =>
        /\ hpc \in {"begin", "report", "exit", "done"}
        /\ body = NoBody
        /\ \A i \in DOMAIN calls : calls[i].op = "e2e_exit" /\ calls[i].mode = "1"
        /\ hpc # "begin" =>
               /\ Len(events) = 1
               /\ events[1].name = "env_check"
               /\ ~events[1].ok
               /\ ~suite.ok
        /\ hpc \in {"exit", "done"} =>
               suite.line = "FAIL" /\ suite.code = 1 /\ Len(calls) = 1

\* with the host set and the user not, the run has ended
C14_Witness ==
    /\ env.e2e /\ env.host /\ ~env.user
    /\ hpc = "done"
    /\ Len(calls) = 1

\* the suite has returned to the entry point
SuiteReturned == env.e2e /\ hpc \in {"report", "exit", "done"}

\* the operations of the run's steps: everything but the closing trace_list, the
\* cleanup of the key and the exit call
StepCalls ==
    {i \in DOMAIN calls :
         calls[i].op \notin {"trace_list", "ssh_clear_private_key", "e2e_exit"}}

\* C15: in every run with the required environment present, trace_clear is the
\* first backend operation, and trace_list is invoked after the run's other
\* operations, on the passing path and on every failing path
C15_ClearFirstListLast ==
    (env.e2e /\ ~EnvAbsent) =>
        /\ calls # <<>> => calls[1].op = "trace_clear"
        /\ SuiteReturned =>
               \E l \in DOMAIN calls :
                   /\ calls[l].op = "trace_list"
                   /\ \A i \in StepCalls : i < l

ExitCalls == {i \in DOMAIN calls : calls[i].op = "e2e_exit"}

\* one run, one report line, one exit call whose code says what the line says
OneReportOneExit ==
    env.e2e =>
        /\ suite.runs = IF hpc = "begin" THEN 0 ELSE 1
        /\ Cardinality(ExitCalls) = IF hpc \in {"exit", "done"} THEN 1 ELSE 0
        /\ (suite.line # "") = (hpc \in {"exit", "done"})
        /\ \A i \in ExitCalls :
               /\ suite.line = IF suite.ok THEN "PASS" ELSE "FAIL"
               /\ suite.code = IF suite.ok THEN 0 ELSE 1
               /\ calls[i].mode = IF suite.ok THEN "0" ELSE "1"

\* once e2e_exit has been invoked the entry point does nothing more: no second
\* line, no second exit call, no change of the result, no new run
ExitIsLast ==
    hpc \in {"exit", "done"} =>
        /\ hpc' \in {"exit", "done"}
        /\ suite'.line = suite.line /\ suite'.code = suite.code /\ suite'.ok = suite.ok
        /\ suite'.runs = suite.runs
        /\ events' = events
        /\ \A i \in DOMAIN calls' : calls'[i].op = "e2e_exit" => i \in ExitCalls

\* C16: every run emits exactly one report line and then calls e2e_exit exactly
\* once, as the last action of the entry point; the line says PASS and the code
\* is 0 exactly when the suite returned ok, FAIL and 1 otherwise; a second
\* call of the entry point during or after a run starts no second run
C16_OneReportOneExit == []OneReportOneExit /\ [][ExitIsLast]_vars

\* the entry point was called again during a run that went on to report PASS
C16_Witness ==
    /\ suite.again
    /\ hpc = "done"
    /\ suite.line = "PASS"
    /\ Len(events) > 1

\* the operations exposed to the front end
ExposedOps ==
    {"ssh_key_status", "ssh_set_private_key", "ssh_clear_private_key", "ssh_exec",
     "vmware_list_running", "vmware_start_vm", "vmware_stop_vm",
     "vmware_scan_default_vmx", "vmware_scan_vmx", "trace_list", "trace_clear"}

\* the operations every complete run goes through
AlwaysOps ==
    {"ssh_key_status", "ssh_exec", "vmware_list_running", "vmware_scan_default_vmx",
     "trace_list", "trace_clear"}

Invoked(op) == \E i \in DOMAIN calls : calls[i].op = op

ReportedPass == env.e2e /\ suite.line = "PASS"

\* the original statement of C17: a run that reports PASS has invoked every
\* exposed operation at least once, whatever the optional settings and the
\* initial key presence
C17_PassCoversAll == ReportedPass => \A op \in ExposedOps : Invoked(op)

\* the answer of the run's first ssh_key_status: a key was there at the start
KeyWasPresent ==
    \E i \in DOMAIN calls :
        /\ calls[i].op = "ssh_key_status"
        /\ calls[i].present
        /\ \A j \in DOMAIN calls : calls[j].op = "ssh_key_status" => i <= j

\* C17: a run that reports PASS has invoked ssh_key_status, ssh_exec,
\* vmware_list_running, vmware_scan_default_vmx, trace_list and trace_clear; it
\* has invoked vmware_start_vm and vmware_stop_vm exactly when a vmx path is
\* set, vmware_scan_vmx exactly when scan roots are set, ssh_set_private_key
\* exactly when no key was present at the start, and ssh_clear_private_key
\* exactly when a key text is set
C17_PassCoversConfigured ==
    ReportedPass =>
        /\ \A op \in AlwaysOps : Invoked(op)
        /\ Invoked("vmware_start_vm") = (env.vmxPath # NoPath)
        /\ Invoked("vmware_stop_vm") = (env.vmxPath # NoPath)
        /\ Invoked("vmware_scan_vmx") = env.scanRoots
        /\ Invoked("ssh_set_private_key") = ~KeyWasPresent
        /\ Invoked("ssh_clear_private_key") = env.keyText

\* PASS without a vmx path, with scan roots, the key set by the run
C17_Witness ==
    /\ ReportedPass
    /\ env.vmxPath = NoPath
    /\ Invoked("vmware_scan_vmx")
    /\ Invoked("ssh_set_private_key")

\* the running step awaits a remote operation that has not returned
AwaitsRemote ==
    /\ env.e2e /\ hpc = "step"
    /\ body.cid \in DOMAIN calls
    /\ body.stage \in {"call", "preflight_list", "retry_call", "check_list"}
    /\ calls[body.cid].status = "pending"
    /\ calls[body.cid].op \in RemoteOps

\* C18: every remote operation the suite invokes (ssh_exec, list_running,
\* start, stop, the scans, the preflight stop too) runs under the per-step
\* timeout, so that a call that never returns fails the step with a timeout
C18_RemoteCallsTimed == AwaitsRemote => Timed(body)

----------------------------------------------------------------------------
(* What is persisted *)

\* the texts held in local storage
StoredTexts ==
    UNION {{localStorage.opLog[k].action, localStorage.opLog[k].status,
            localStorage.opLog[k].error, localStorage.opLog[k].meta.summary,
            localStorage.opLog[k].meta.mode} : k \in DOMAIN localStorage.opLog}
    \cup {localStorage.knownVms[k].id : k \in DOMAIN localStorage.knownVms}
    \cup {localStorage[key] : key \in DOMAIN localStorage \ {"knownVms", "opLog"}}

\* the VM passwords in use: typed, or handed to a start / stop
PasswordTexts == ({vmPassword} \cup {calls[i].vmPassword : i \in DOMAIN calls}) \ {""}

PasswordNotStored == PasswordTexts \cap StoredTexts = {}

\* typing a password writes nothing
PasswordChangeWritesNothing == vmPassword' # vmPassword => localStorage' = localStorage

VmTasks == {t \in tasks : t.fn \in {"startVm", "stopVm"}}

\* the texts of the busy marker
MarkerTexts == {"starting", "soft stopping", "hard stopping"}

\* with no start / stop under way the marker is empty; it is never stored
MarkerFollowsHandlers ==
    /\ VmTasks = {} => actionVmId = "" /\ actionText = ""
    /\ (actionVmId = "") = (actionText = "")
    /\ actionText # "" => actionText \in MarkerTexts
    /\ MarkerTexts \cap StoredTexts = {}

\* the end of a start / stop handler clears the marker; setting or clearing
\* the marker alone writes nothing
HandlerEndClears ==
    /\ Cardinality(VmTasks') < Cardinality(VmTasks) => actionVmId' = "" /\ actionText' = ""
    /\ (actionVmId' # actionVmId /\ opLog' = opLog) => localStorage' = localStorage

\* C20: the busy marker never outlives its start / stop and is never persisted:
\* every start / stop clears the marker when it ends (the call failed, or the
\* refresh that follows a successful call is over), so whenever no start / stop
\* is under way actionVmId and actionText are empty; the marker is not written
\* to local storage
C20_MarkerCleared == []MarkerFollowsHandlers /\ [][HandlerEndClears]_vars

\* a stop has ended with its refresh while a start failed, and the marker is
\* empty again
C20_Witness ==
    /\ VmTasks = {}
    /\ actionVmId = ""
    /\ \E k \in DOMAIN opLog : opLog[k].action = "stop_vm" /\ opLog[k].status = "success"
    /\ \E i \in DOMAIN calls : calls[i].op = "vmware_start_vm" /\ calls[i].status = "err"

----------------------------------------------------------------------------
(* Overlapping refreshes *)

\* the refreshes in flight: refresh() instances that await their list call
RefreshesInFlight ==
    {t \in tasks : t.phase = "list" /\ t.fn \in {"refresh", "startVm", "stopVm"}}

ListCalls == {i \in DOMAIN calls : calls[i].op = "vmware_list_running"}

LastIssued(S) == CHOOSE i \in S : \A j \in S : j <= i

\* the refreshing flag is true exactly while a refresh is in flight
FlagFollowsRefreshes == isRefreshing <=> RefreshesInFlight # {}

\* once every list call has completed, the displayed set is the answer to the
\* list call issued last (when that call was answered at all)
DisplayedIsLastIssued ==
    (/\ ListCalls # {}
     /\ \A i \in ListCalls : calls[i].status # "pending"
     /\ calls[LastIssued(ListCalls)].status = "ok")
    => runningVmxPaths = calls[LastIssued(ListCalls)].value

\* C21: however the refreshes of the console overlap (the mount's, the
\* button's, the one after a start or stop), the refreshing flag is true
\* exactly while at least one refresh is in flight, and once all list calls
\* have completed the displayed running set is the result of the list call
\* issued last
C21_RefreshesAgree ==
    ~env.e2e => FlagFollowsRefreshes /\ DisplayedIsLastIssued

----------------------------------------------------------------------------
(* A start or stop step that timed out *)

VmCalls == {i \in DOMAIN calls : calls[i].op \in VmOps}

\* the report holds the timeout of a start or stop step
StartStopTimedOut ==
    \E k \in DOMAIN events : /\ events[k].name \in StartSteps \cup StopSteps
                             /\ ~events[k].ok
                             /\ events[k].error = <<"timed out">>

\* C22: once a start or stop step has failed by timeout the harness has
\* abandoned it: after the step's failure has been reported, the retry loop of
\* the timed-out step makes no new attempt and no start or stop call is issued
C22_NoAttemptAfterTimeout == [][StartStopTimedOut => VmCalls' = VmCalls]_vars

----------------------------------------------------------------------------
(* The list of known VMs *)

\* entries of the list vms whose path is p up to letter case
SamePath(vms, p) == {i \in DOMAIN vms : ToLowerCase(vms[i].vmxPath) = ToLowerCase(p)}

\* no two entries differ only by letter case, and no entry has a blank path
KnownVmsNormal ==
    /\ \A i \in DOMAIN knownVms : Cardinality(SamePath(knownVms, knownVms[i].vmxPath)) = 1
    /\ \A i \in DOMAIN knownVms : Trim(knownVms[i].vmxPath) # <<>>

\* the step is a manual add or an import of scan results
AddsVms ==
    /\ opLog' # opLog /\ opLog' # <<>>
    /\ opLog'[1].action \in {"add_vm_manual", "import_scan_results"}

\* the paths the step has offered to the list: the one added by hand, or the
\* scan results when all of them were selected
Offered ==
    IF opLog'[1].action = "add_vm_manual" THEN {opLog'[1].meta.vmxPath}
    ELSE IF opLog'[1].meta.selectedCount = Len(scanResults)
    THEN {scanResults[k] : k \in DOMAIN scanResults}
    ELSE {}

\* an add or import leaves every known VM where and as it was, and each path it
\* offered has exactly one entry afterwards
AddKeepsKnown ==
    AddsVms =>
        /\ Len(knownVms') >= Len(knownVms)
        /\ \A i \in DOMAIN knownVms : knownVms'[i] = knownVms[i]
        /\ \A p \in Offered :
               Trim(p) # <<>> => Cardinality(SamePath(knownVms', p)) = 1

\* C23: after any sequence of loading from storage, manual adds, scan imports,
\* removals and pin changes the known-VM list never holds two entries whose
\* paths differ only by letter case and never an entry with a blank path; an
\* import of scan output with the same path in two spellings yields exactly one
\* entry, and a known VM keeps its id, pin and name when its path is added again
C23_KnownVmsNormalised ==
    [](env.scope = "vms" => KnownVmsNormal) /\ [][AddKeepsKnown]_vars

\* both spellings of a path were imported into a list that knew the path as
\* the pinned VM vm1
C23_Witness ==
    /\ env.scope = "vms"
    /\ opLog[1].action = "import_scan_results"
    /\ opLog[1].meta.selectedCount = 2
    /\ scanResults = <<VmxA, VmxALower>>
    /\ \E i \in DOMAIN knownVms : knownVms[i].vmxPath = VmxA /\ knownVms[i].id = "vm1"
                                  /\ knownVms[i].pinned

----------------------------------------------------------------------------
(* Request ids *)

\* the calls that were handed a request id
IdCalls == {i \in DOMAIN calls : calls[i].requestId # NoId}

\* calls i and j are successive attempts of one retried start or stop
SameRetry(i, j) ==
    /\ calls[i].op \in VmOps /\ calls[j].op = calls[i].op
    /\ calls[j].path = calls[i].path
    /\ calls[i].attempt >= 1 /\ calls[j].attempt = calls[i].attempt + 1

\* two calls carry the same request id only as attempts of one retry
FreshIds ==
    \A i, j \in IdCalls :
        (i < j /\ calls[i].requestId = calls[j].requestId) => SameRetry(i, j)

\* every later attempt of a retry carries the request id of the attempt before
RetrySharesId ==
    \A j \in DOMAIN calls :
        calls[j].attempt > 1 =>
            \E i \in 1..(j - 1) : /\ SameRetry(i, j)
                                  /\ calls[i].requestId = calls[j].requestId
                                  /\ calls[i].status = "err"

\* the log action under which the app records a command that takes a request id
RemoteActionOf(op, mode) ==
    CASE op = "vmware_list_running" -> "refresh_running"
      [] op = "vmware_start_vm" -> "start_vm"
      [] op = "vmware_stop_vm" -> "stop_vm"
      [] op = "vmware_scan_default_vmx" -> "scan_vmx_default"
      [] op = "vmware_scan_vmx" -> "scan_vmx_custom"
      [] OTHER -> "run_diag"

RemoteActions ==
    {"refresh_running", "start_vm", "stop_vm", "scan_vmx_default", "scan_vmx_custom"}

\* log entries with a request id have pairwise different ids, and the entry of a
\* remote operation carries the id that was passed to the backend for it
LogIdsAreCallIds ==
    /\ \A k, l \in DOMAIN opLog :
           (k # l /\ opLog[k].requestId # NoId) => opLog[k].requestId # opLog[l].requestId
    /\ \A k \in DOMAIN opLog :
           opLog[k].action \in RemoteActions =>
               \E i \in IdCalls :
                   /\ calls[i].requestId = opLog[k].requestId
                   /\ RemoteActionOf(calls[i].op, calls[i].mode) = opLog[k].action
                   /\ calls[i].status = IF opLog[k].status = "success" THEN "ok" ELSE "err"

\* every completed call the app made with a request id has its log entry (the
\* settings page may clear the log)
CallIdsAreLogged ==
    (~env.e2e /\ env.scope # "traces") =>
        \A i \in IdCalls :
            calls[i].status # "pending" =>
                \E k \in DOMAIN opLog :
                    /\ opLog[k].requestId = calls[i].requestId
                    /\ opLog[k].action = RemoteActionOf(calls[i].op, calls[i].mode)

\* C24: a request id identifies one logical operation: every operation that is
\* handed to the backend with a request id gets a fresh one, distinct from the
\* ids of all other operations; that id is the one the backend receives and the
\* one written to the operation's log entry; and all attempts of one retried
\* start or stop carry the same id
C24_OneIdPerOperation ==
    FreshIds /\ RetrySharesId /\ LogIdsAreCallIds /\ CallIdsAreLogged

\* the suite has made the second attempt of a retried start or stop
C24_Witness ==
    \E j \in DOMAIN calls : calls[j].attempt = 2 /\ calls[j].status # "pending"

----------------------------------------------------------------------------
(* The logging wrappers: withLog and runStep *)

\* call i completes in this step
Completes(i) == calls[i].status = "pending" /\ calls'[i].status # "pending"

\* the commands the app runs through withLog
AppWrapped(op) == op \notin {"trace_list", "trace_clear", "e2e_exit"}

\* the caller of withLog has caught the error of call i, re-thrown by withLog
Caught(i) ==
    LET c == calls'[i]
    IN  CASE c.op = "vmware_list_running" -> globalError' = c.err
          [] c.op \in VmOps -> /\ globalError' = c.err
                               /\ Len(calls') = Len(calls)
                               /\ toasts'[1].kind = "error"
          [] c.op \in {"vmware_scan_default_vmx", "vmware_scan_vmx"} -> scanError' = c.err
          [] c.op \in {"ssh_set_private_key", "ssh_clear_private_key"} ->
                 toasts'[1].kind = "error"
          [] OTHER -> sshKeyPresent' = "absent"

\* one record was put on top of the log (whose capacity may have cost it its
\* oldest record)
OneOnTop == opLog' # <<>> /\ Tail(opLog') = Take(opLog, LogCapacity - 1)

\* withLog: the completion of a wrapped call puts exactly one record on top of
\* the log, success when the call resolved and error with its text when it was
\* rejected, and then the caller sees the error
AppRecordsOne ==
    ~env.e2e =>
        \A i \in DOMAIN calls :
            (Completes(i) /\ AppWrapped(calls[i].op)) =>
                /\ OneOnTop
                /\ opLog'[1].status = IF calls'[i].status = "ok" THEN "success" ELSE "error"
                /\ opLog'[1].error = calls'[i].err
                /\ opLog'[1].requestId = RidOf(calls[i])
                /\ calls'[i].status = "err" => Caught(i)

\* nothing else writes a record of an operation
LogOnlyByRecords ==
    (~env.e2e /\ opLog' # opLog) =>
        \/ opLog' = <<>>
        \/ OneOnTop /\
           (AddsVms \/ \E i \in DOMAIN calls : Completes(i) /\ AppWrapped(calls[i].op))

\* every completed wrapped call has one record, however the calls overlapped
\* (the settings page may clear the log)
OneRecordPerCall ==
    (~env.e2e /\ env.scope # "traces") =>
        \A i \in DOMAIN calls :
            (calls[i].status # "pending" /\ AppWrapped(calls[i].op)
                                         /\ RidOf(calls[i]) # NoId) =>
                Cardinality({k \in DOMAIN opLog :
                                 opLog[k].requestId = RidOf(calls[i])}) = 1

\* the main flow of the suite leaves the step it awaits
StepOver ==
    /\ env.e2e /\ hpc = "step" /\ ~abandoned /\ body.stage # "idle"
    /\ hpc' # "step" \/ body'.step # body.step

\* the function handed to runStep resolved: its timer did not fire, the call it
\* awaited last resolved, and the reconciliation (if that is what it was) agreed
StepResolved ==
    /\ ~abandoned'
    /\ calls'[body.cid].status = "ok"
    /\ body.stage = "check_list" => \A l \in {body.cid} : ~(Disagrees(l))'

\* runStep: the end of a step appends exactly one event for it, ok when the
\* step's function resolved, failed with the error when it rejected, and then
\* the error reaches the suite's catch block
HarnessRecordsOne ==
    StepOver =>
        /\ Len(events') > Len(events)
        /\ SubSeq(events', 1, Len(events)) = events
        /\ LET e == events'[Len(events) + 1]
           IN  /\ e.name = body.step
               /\ e.ok <=> StepResolved
               /\ e.ok => e.error = <<>>
               /\ ~e.ok => e.error # <<>> /\ hpc' = "catch"
        /\ \A k \in (Len(events) + 2)..Len(events') : events'[k].name # body.step

\* events are only ever appended, and no step has two events
EventsAppendOnly ==
    /\ events' # events =>
           Len(events') > Len(events) /\ SubSeq(events', 1, Len(events)) = events
    /\ \A k, l \in DOMAIN events' : k # l => events'[k].name # events'[l].name

\* C25: each operation run through a logging wrapper (withLog in the app,
\* runStep in the suite) yields exactly one record, success / ok exactly when
\* the wrapped call resolved, error / failed with the error text exactly when
\* it rejected, and then the error is re-thrown to the caller; no record is
\* lost or duplicated however the wrapped operations overlap
C25_OneRecordEach ==
    /\ []OneRecordPerCall
    /\ [][AppRecordsOne /\ LogOnlyByRecords /\ HarnessRecordsOne /\ EventsAppendOnly]_vars

\* two wrapped operations the user started overlapped and completed in the
\* reverse order of their issue, one of them with an error
C25_Witness ==
    /\ ~env.e2e
    /\ \E i, j \in DOMAIN calls :
           /\ Len(MountCalls) < i /\ i < j
           /\ AppWrapped(calls[i].op) /\ AppWrapped(calls[j].op)
           /\ calls[i].status # "pending" /\ calls[j].status # "pending"
           /\ calls[j].settledAt < calls[i].settledAt
           /\ calls[j].startedAt < calls[i].settledAt
           /\ "err" \in {calls[i].status, calls[j].status}

----------------------------------------------------------------------------
(* The operation log and the toast list as bounded ledgers *)

\* list' is list with one entry put in front, cut to the capacity: when the list
\* was full exactly its last (oldest) entry is gone, otherwise nothing is
PushedOnto(list, listNew, capacity) ==
    /\ listNew # <<>>
    /\ Tail(listNew) = IF Len(list) >= capacity THEN SubSeq(list, 1, capacity - 1)
                       ELSE list

\* the step issues the trace_clear of the settings page's clear button
ClearsLog ==
    /\ ~env.e2e
    /\ Len(calls') = Len(calls) + 1
    /\ calls'[Len(calls')].op = "trace_clear"

\* the log changes by a push or by the clear only, and the clear empties it
LogIsLedger ==
    /\ opLog' # opLog => opLog' = <<>> \/ PushedOnto(opLog, opLog', LogCapacity)
    /\ ClearsLog => opLog' = <<>>

\* the toast list changes by a push only
ToastsAreLedger == toasts' # toasts => PushedOnto(toasts, toasts', ToastCapacity)

----------------------------------------------------------------------------
(* The key-presence flag of the app *)

\* a key operation of the app completes in this step
KeyOpCompletes ==
    /\ ~env.e2e
    /\ \E i \in DOMAIN calls :
           Completes(i) /\ calls[i].op \in KeyOps \cup {"ssh_key_status"}

\* C27: after every completed key operation of the app (status query, upload,
\* clear) the key-presence flag it shows equals the backend's actual key
\* presence; an upload that fails while a key is stored leaves the flag at
\* present
C27_FlagIsPresence ==
    [][KeyOpCompletes => sshKeyPresent' = IF keyStored' THEN "present" ELSE "absent"]_vars

----------------------------------------------------------------------------
(* The credential state around a run of the suite *)

\* the run found a key: its first key operation is a status query answered yes
FoundPresent ==
    \E i \in DOMAIN calls :
        /\ calls[i].op = "ssh_key_status" /\ calls[i].present
        /\ \A j \in 1..(i - 1) : calls[j].op \notin KeyOps \cup {"ssh_key_status"}

\* C28: the suite leaves the credential state as it found it: it clears the
\* private key at the end of a run only if that run has set the key, so a key
\* that was present before the run is still present once the run has returned,
\* whether it passed or failed
C28_CredentialsAsFound ==
    env.e2e =>
        /\ \A c \in DOMAIN calls :
               calls[c].op = "ssh_clear_private_key" =>
                   \E s \in 1..(c - 1) : /\ calls[s].op = "ssh_set_private_key"
                                         /\ calls[s].status = "ok"
        /\ (SuiteReturned /\ FoundPresent) => keyStored

----------------------------------------------------------------------------
(* The result of the suite and its report *)

FailedEvents == {k \in DOMAIN events : ~events[k].ok}

\* the report line has been written
Reported == env.e2e /\ hpc \in {"exit", "done"}

\* C29: the result of the suite agrees with its structured report: the run is
\* reported as failed exactly when the report holds an event with ok = false,
\* that event names the step and carries the error, and after the first failed
\* event no further step is started
C29_ResultAgreesWithReport ==
    env.e2e =>
        /\ Reported => (suite.line = "FAIL" <=> FailedEvents # {})
        /\ \A k \in FailedEvents :
               /\ events[k].name # "" /\ events[k].error # <<>>
               /\ k = Len(events)
               /\ hpc # "step"

----------------------------------------------------------------------------
(* Termination of the suite *)

\* what the suite's progress rests on: the entry point is run, every backend
\* invocation it awaits returns or fails, every sleep ends, and the synchronous
\* code between two awaits is run.  Nothing is asked of the timers of
\* withTimeout, which may or may not fire, nor of a second call of the entry
\* point
E2EFairness ==
    /\ WF_vars(E2EBegin)
    /\ WF_vars(\E out \in BodyOutcomes : E2EBodySettled(out))
    /\ WF_vars(E2ESleepElapsed)
    /\ WF_vars(\E out \in Outcomes("trace_list") : E2ECatchSettled(out))
    /\ WF_vars(\E out \in Outcomes("ssh_clear_private_key") : E2EFinallySettled(out))
    /\ WF_vars(E2EReport)
    /\ WF_vars(E2EExit)

\* the suite alone, with every invocation eventually answered
SpecE2E == InitE2E /\ [][E2ENext]_vars /\ E2EFairness

\* the run has written its report line and e2e_exit has been called with the
\* matching code
Exited ==
    /\ hpc = "done"
    /\ suite.line \in {"PASS", "FAIL"}
    /\ \E i \in ExitCalls : calls[i].mode = IF suite.line = "PASS" THEN "0" ELSE "1"

\* no start or stop is attempted more than RetryAttempts times
AttemptsBounded ==
    \A i \in DOMAIN calls :
        /\ calls[i].attempt <= RetryAttempts
        /\ Cardinality(Attempts(calls[i].requestId)) <= RetryAttempts

\* C30: if every backend invocation eventually returns or fails, every enabled
\* run of the suite terminates: no start or stop is attempted more than twice,
\* and the run eventually writes its report line and calls e2e_exit, on the
\* passing path and on every failing path
C30_SuiteTerminates ==
    /\ []AttemptsBounded
    /\ (hpc = "begin") ~> Exited

\* a run that attempted a start or stop a second time has written FAIL and has
\* called e2e_exit
C30_Witness ==
    /\ Exited
    /\ suite.line = "FAIL"
    /\ \E i \in DOMAIN calls : calls[i].attempt = RetryAttempts

====
